---- MODULE Spec2Model ----
(***************************************************************************)
(* The batch scraping engine of utils/batch_scraper.py: BatchScraperThread *)
(* (run, cancel, the sequential and the pooled dispatch of accounts, the   *)
(* per-account pagination and date filter) and the BatchScraperDatabase    *)
(* records it writes.                                                      *)
(*                                                                         *)
(* Network calls (get_fakid, getAllUrl) are two-step: the call is issued   *)
(* (the worker is then "resolving" / "fetching") and later answered by the *)
(* environment.  Neither call passes a timeout to requests.get, so an      *)
(* issued call may also never be answered (NetworkStall).                  *)
(*                                                                         *)
(* An item of a feed is represented by the calendar date of its            *)
(* update_time, the only thing the scan reads of it; an article is         *)
(* identified by <<account, position in the feed>> (its link).  The feed   *)
(* of an account is static; the model learns it page by page as the        *)
(* endpoint serves it (feed, feed_done).                                   *)
(*                                                                         *)
(* Further state machines share the module, each with its own initial      *)
(* predicate and next-state relation, the variables of the others staying  *)
(* at rest:                                                                *)
(*   StoreSpec    the sqlite file behind BatchScraperDatabase, written by  *)
(*                the threads of batch runs (create_batch, save_article,   *)
(*                complete_batch under the object's Lock);                 *)
(*   ScraperSpec  the standalone scraper of note/other/WeChat.py           *)
(*                (WeChatScraper.run, scrape_articles_by_account and the   *)
(*                retrying _make_request, the enrichment and saving of     *)
(*                the in-window items);                                    *)
(*   MultiSpec    the content downloader of                                *)
(*                utils/getContentsByUrls_MultiThread.py: crawl threads    *)
(*                and parse threads around url_queue and response_queue.   *)
(***************************************************************************)
EXTENDS Integers, Sequences, FiniteSets, TLC

\* ---------------------------------------------------------------- bounds
NumAccounts == 2        \* accounts of a multi-account batch
MaxDay == 2             \* calendar dates are 0..MaxDay
MaxPages == 3           \* max_pages_per_account of a deep scan
MaxBatchPages == 1      \* largest max_pages_per_account of the other batches
EndDay == 1             \* the end_date drawn (start_date ranges over all dates)
MaxScanFeedLen == 6     \* items the account of a deep scan is served at most
MaxBatchFeedLen == 1    \* items an account of any other batch is served at most
MaxClock == 1           \* the store's clock (seconds) runs over 0..MaxClock
MaxRunSaves == 2        \* save_article calls one run makes at most
MaxListPages == 2       \* listing pages the standalone scraper is served at most
MaxPageArticles == 1    \* in-window items an account of the standalone scraper has
MaxUrls == 2            \* rows of the url file of the content downloader
MaxInvocations == 2     \* calls of the content downloader in one process
MaxSaveErrors == 1      \* store writes and extractions that fail during one run
MaxThreads == 3         \* batch threads one BatchScraperManager starts at most
MaxCancels == 2         \* cancel_batch_scrape calls made on it at most

\* ------------------------------------------------------- program constants
PageSize == 5           \* 'count': '5' of getAllUrl; page_start += 5
RETRY_COUNT == 3        \* WeChat.py: retries of a failed request
DEFAULT_REQUEST_DELAY == <<1, 3>>   \* batch_scraper.py: bounds of the pause, seconds
DefaultInterval == 60   \* create_batch_config: request_interval when not given
PresetInterval == 30    \* main.py: the shortest preset of the interval field

\* max_workers of the pool: one less than the accounts, so that one queues.
MaxWorkers == NumAccounts - 1

Acc == 1..NumAccounts
Days == 0..MaxDay

\* A date string of the configuration is represented by its day when it has
\* the form YYYY-MM-DD; NotADate is a string strptime rejects.
NotADate == MaxDay + 1
None == -1

VARIABLES
    config,             \* self.config, read-only after construction
    is_cancelled,       \* self.is_cancelled
    orch_pc,            \* where run() is
    seq_i,              \* the index i of _process_accounts_sequential
    consumed,           \* futures as_completed has yielded and the loop handled
    all_articles,       \* all_articles of the dispatching function
    wpc,                \* per account: where its _scrape_single_account call is
    page,               \* per account: the loop variable page
    page_start,         \* per account: page_start
    articles_in_range,  \* per account: articles_in_range (feed positions)
    feed,               \* per account: the items the listing endpoint has served
    feed_done,          \* per account: a served page was short, the feed has no more
    pauses,             \* per account: the ranges its pauses between pages were drawn from
    searches,           \* per account: get_fakid calls issued
    fetches,            \* per account: getAllUrl calls issued
    status,             \* per account: the last account_status event emitted
    db_batch,           \* batch_info.status of this batch_id ("none": no row)
    db_total,           \* batch_info.total_articles
    db_articles,        \* batch_articles rows, keyed by link
    db_completions,     \* complete_batch calls made
    save_errors,        \* errors save_article has logged for writes that raised
    save_raises,        \* save_article calls that let an exception escape
    export,             \* the rows of the CSV file written by _save_results
    export_writes,      \* times _save_results has opened the CSV file for writing
    completed_events,   \* batch_completed events emitted (their article counts)
    error_events,       \* error_occurred events emitted (their account names)
    progress_events     \* progress_updated events emitted (their account counts)

\* The sqlite file of BatchScraperDatabase and the threads writing to it.
VARIABLES
    batch_articles,     \* the rows of table batch_articles
    batch_info,         \* per batch_id: its row of table batch_info, or NoRow
    now,                \* strftime('%s', 'now'): the clock of the store
    lock,               \* per run: self.lock of its BatchScraperDatabase: the
                        \* thread holding it, or "free"
    tpc,                \* per thread: where it is in its run
    call,               \* per thread: the article of its save_article call in progress
    run_saved,          \* per run: save_article calls its threads have made
    run_batch_id,       \* per run: config['batch_id']
    last_save           \* per link: the last save_article that committed

\* run_getContentsByUrls_MultiThread of utils/getContentsByUrls_MultiThread.py.
VARIABLES
    url_list,           \* the rows of the url file, in file order
    url_queue,          \* queue.Queue of [idx, url]
    response_queue,     \* queue.Queue of [idx, response]
    contents,           \* the module-level list contents: [idx, content]
    craw_pc,            \* per crawl thread: where do_craw is
    craw_url,           \* per crawl thread: the [idx, url] it has taken
    parse_pc,           \* per parse thread: where do_parse is
    parse_response,     \* per parse thread: the [idx, response] it has taken
    main_pc,            \* where run_getContentsByUrls_MultiThread is
    invocation,         \* calls of it made in this process, this one included
    content_file        \* the rows of the content file, or NoFile

\* BatchScraperManager of utils/batch_scraper.py and the threads it creates.
VARIABLES
    current_thread,     \* self.current_thread: the thread created last (0: None)
    th_state,           \* per BatchScraperThread: not created, running, finished
    th_cancelled,       \* per BatchScraperThread: its is_cancelled
    mgr_pc,             \* where the caller of the manager is
    mgr_cancels         \* cancel_batch_scrape calls made

\* WeChatScraper of note/other/WeChat.py.
VARIABLES
    s_pc,               \* where run() / scrape_articles_by_account is
    s_i,                \* the index of the account run() is at
    s_begin,            \* begin of scrape_articles_by_account
    s_events,           \* ACCOUNT_STATUS lines printed: <<account, status>>
    s_error,            \* the error text of the last ACCOUNT_STATUS line with one
    s_calls,            \* per account: _make_request calls made for it
    s_auth,             \* the account an auth-failure code was answered to (0: none)
    s_articles,         \* articles_in_range of the account being scraped
    s_db,               \* the rows of table articles of DatabaseManager
    s_warnings,         \* warnings extract_content has logged for failed extractions
    s_write_failures,   \* save_article calls of the scraper that wrote no row
    m_pc,               \* where _make_request is
    m_i,                \* the loop variable i of _make_request
    m_requests,         \* requests.get calls of the current _make_request
    m_sleeps,           \* time.sleep(RETRY_DELAY_SECONDS) calls of it
    m_response          \* what it returned

tableVars == <<batch_articles, batch_info, now, lock, tpc, call, run_saved,
               run_batch_id, last_save>>
multiVars == <<url_list, url_queue, response_queue, contents, craw_pc, craw_url,
               parse_pc, parse_response, main_pc, invocation, content_file>>
enrichVars == <<s_articles, s_db, s_warnings, s_write_failures>>
scraperVars == <<s_pc, s_i, s_begin, s_events, s_error, s_calls, s_auth, enrichVars,
                 m_pc, m_i, m_requests, m_sleeps, m_response>>

mgrVars == <<current_thread, th_state, th_cancelled, mgr_pc, mgr_cancels>>

otherVars == <<tableVars, scraperVars, multiVars, mgrVars>>

vars == <<config, is_cancelled, orch_pc, seq_i, consumed, all_articles, wpc, page,
          page_start, articles_in_range, feed, feed_done, pauses, searches, fetches, status,
          db_batch, db_total, db_articles, db_completions, save_errors, save_raises,
          export, export_writes, completed_events, error_events, progress_events,
          tableVars, scraperVars, multiVars, mgrVars>>

orchVars == <<orch_pc, seq_i, consumed, all_articles>>
workerVars == <<wpc, page, page_start, articles_in_range, feed, feed_done, pauses, searches,
                fetches>>
storeVars == <<db_batch, db_total, db_articles, db_completions, save_errors, save_raises>>
outVars == <<export, export_writes, completed_events, error_events, progress_events>>

\* ---------------------------------------------------------------- helpers
Accounts == 1..config.accounts

Min(a, b) == IF a < b THEN a ELSE b

\* Batches of one account scanned by the orchestrator thread without a store
\* and with the most pages are explored in depth (long feeds of items of any
\* date); the others with short feeds of items dated end_date.
DeepScan(c) ==
    /\ c.accounts = 1 /\ ~c.use_threading /\ ~c.use_database
    /\ c.max_pages_per_account = MaxPages

\* The configurations explored: a deep scan has the window [EndDay, EndDay]
\* (items older than, inside and newer than the window all exist) and the
\* content column; any other batch has few pages, a window of one day or a
\* window that is rejected, and leaves the content column off only in
\* sequential mode; a pool larger than the account list is explored in
\* threaded batches without a store.
\* A single-account sequential batch with a store: its feed has one item more
\* than the feeds of the other batches, it may fetch one page more, and its
\* writes to the store can fail.
StoreScan(c) == c.accounts = 1 /\ ~c.use_threading /\ c.use_database

DeepConfig(c) == c.include_content /\ c.start_date = EndDay
BatchConfig(c) ==
    /\ c.max_pages_per_account <= MaxBatchPages + (IF StoreScan(c) THEN 1 ELSE 0)
    /\ c.start_date \in {EndDay, MaxDay, NotADate}
    /\ c.include_content \/ ~c.use_threading
WidePool(c) == c.use_threading /\ ~c.use_database /\ c.accounts = NumAccounts

\* The request interval is varied in the one-page scans of one account without
\* a store; the other batches run with the default.
IntervalScan(c) ==
    /\ c.accounts = 1 /\ ~c.use_threading /\ ~c.use_database
    /\ c.max_pages_per_account = 1

FeedCap ==
    IF DeepScan(config) THEN MaxScanFeedLen
    ELSE IF StoreScan(config) THEN MaxBatchFeedLen + 1
         ELSE MaxBatchFeedLen

ItemDates == IF DeepScan(config) THEN Days ELSE {config.end_date}

\* Sequences over S of length lo..hi.
SeqsOf(S, lo, hi) == UNION {[1..k -> S] : k \in lo..hi}

\* Finished counting a future as done from the moment its call has started.
FinishedOnceStarted(a) == wpc[a] \notin {"idle", "queued"}

Finished(a) == wpc[a] \in {"returned", "raised"}
Running(a) == wpc[a] \in {"resolving", "loop", "fetching", "hung"}

\* The articles of account a in the list arts.
ArticlesOf(arts, a) == SelectSeq(arts, LAMBDA x : x[1] = a)

\* <<a, pos>> for each feed position of poss, in order.
Tagged(a, poss) == [i \in 1..Len(poss) |-> <<a, poss[i]>>]

Range(s) == {s[i] : i \in 1..Len(s)}

\* --------------------------------------------------------- date filtering
\* The inner for loop of _scrape_single_account over one page p whose first
\* item sits at feed position base + 1.  r carries articles_in_range additions,
\* found_in_range and the loop variable article_date.
RECURSIVE FilterItems(_, _, _, _)
FilterItems(p, i, base, r) ==
    IF i > Len(p) THEN r
    ELSE LET article_date == p[i] IN
         IF article_date < config.start_date
         THEN [r EXCEPT !.article_date = article_date]
         ELSE IF config.start_date <= article_date /\ article_date <= config.end_date
              THEN FilterItems(p, i + 1, base,
                       [arts |-> Append(r.arts, base + i), found_in_range |-> TRUE,
                        article_date |-> article_date])
              ELSE FilterItems(p, i + 1, base, [r EXCEPT !.article_date = article_date])

FilterPage(p, base) ==
    FilterItems(p, 1, base, [arts |-> <<>>, found_in_range |-> FALSE, article_date |-> 0])

\* PageEndsScan with the date test dropped: any page without an in-window
\* item ends the pagination.
PageEndsScanOnAnyMiss(r) == ~r.found_in_range

\* The test after the inner loop that ends the pagination.
PageEndsScan(r) == ~r.found_in_range /\ r.article_date < config.start_date

\* ------------------------------------------------- the store: vocabulary
\* The urls, the scraped versions of an article (its title, digest and content
\* as one scrape found them), the batch ids and the threads of batch runs.
Links == {"url_1", "url_2"}
Versions == {"v1", "v2"}
BatchIds == {"batch_1", "batch_2"}
Callers == {"run_1", "run_2"}

\* run_1 is a threaded run: the workers of its pool call save_article on the
\* BatchScraperDatabase of the run, its own thread calls create_batch and
\* complete_batch.  run_2 is a sequential run: its thread makes every call.
Workers == {"worker_1", "worker_2"}
Threads == Callers \cup Workers
Owner(th) == IF th \in Workers THEN "run_1" ELSE th
Savers == Workers \cup {"run_2"}

\* Where a thread is between two save_article calls.
Scanning(th) == IF th \in Workers THEN "idle" ELSE "scanning"

\* Where a thread is while it is inside an operation of a BatchScraperDatabase.
InsideOps == {"create_batch", "save_article", "complete_batch"}

NoRow == [status |-> "none"]
NoSave == [batch_id |-> "none"]
NoCall == [link |-> "none"]

\* The article dict a scan hands to save_article.
Article(l, v) == [link |-> l, title |-> v, digest |-> v, content |-> v]
Articles == {Article(l, v) : l \in Links, v \in Versions}

\* The rows of batch_articles whose link is l.
RowsOf(rows, l) == {r \in rows : r.link = l}

\* The store before any run has touched it: init_database has created the
\* two tables, empty; the runs of ids are about to start.
StoreStart(ids) ==
    /\ batch_articles = {}
    /\ batch_info = [b \in BatchIds |-> NoRow]
    /\ now = 0
    /\ lock = [t \in Callers |-> "free"]
    /\ tpc = [th \in Threads |-> IF th \in Callers THEN "init" ELSE "idle"]
    /\ call = [th \in Threads |-> NoCall]
    /\ run_saved = [t \in Callers |-> 0]
    /\ run_batch_id = ids
    /\ last_save = [l \in Links |-> NoSave]

\* The downloader: threads and urls.  The program starts 20 threads of each
\* kind; the model has two of each.
CrawThreads == {"craw_1", "craw_2"}
ParseThreads == {"parse_1", "parse_2"}
Urls == {"url_a", "url_b"}
NoFile == <<"no file">>
NoItem == <<0, "none">>

\* The module getContentsByUrls_MultiThread imported, the function not yet
\* called on the url file with rows list.
MultiStart(list) ==
    /\ url_list = list
    /\ url_queue = <<>>
    /\ response_queue = <<>>
    /\ contents = <<>>
    /\ craw_pc = [t \in CrawThreads |-> "unstarted"]
    /\ craw_url = [t \in CrawThreads |-> NoItem]
    /\ parse_pc = [t \in ParseThreads |-> "unstarted"]
    /\ parse_response = [t \in ParseThreads |-> NoItem]
    /\ main_pc = "init"
    /\ invocation = 1
    /\ content_file = NoFile

\* BatchScraperManager constructed: no thread yet.
ThreadIds == 1..MaxThreads
ManagerStart ==
    /\ current_thread = 0
    /\ th_state = [i \in ThreadIds |-> "none"]
    /\ th_cancelled = [i \in ThreadIds |-> FALSE]
    /\ mgr_pc = "idle"
    /\ mgr_cancels = 0

\* WeChatScraper constructed, run() not yet called.
ScraperStart ==
    /\ s_pc = "init"
    /\ s_i = 1
    /\ s_begin = 0
    /\ s_events = <<>>
    /\ s_error = "none"
    /\ s_calls = [a \in Acc |-> 0]
    /\ s_auth = 0
    /\ s_articles = <<>>
    /\ s_db = {}
    /\ s_warnings = 0
    /\ s_write_failures = 0
    /\ m_pc = "idle"
    /\ m_i = 0
    /\ m_requests = 0
    /\ m_sleeps = 0
    /\ m_response = "none"

\* ------------------------------------------------------------------- Init
Init ==
    /\ StoreStart([t \in Callers |-> "batch_1"])
    /\ ScraperStart
    /\ MultiStart(<<>>)
    /\ ManagerStart
    /\ config \in {c \in [accounts : {0, 1, NumAccounts},
                          start_date : Days \cup {NotADate},
                          end_date : {EndDay, NotADate},
                          use_database : BOOLEAN,
                          use_threading : BOOLEAN,
                          max_workers : {MaxWorkers, NumAccounts + 1},
                          max_pages_per_account : 1..MaxPages,
                          output_file : {TRUE},
                          include_content : BOOLEAN,
                          request_interval : {DefaultInterval, PresetInterval}] :
                        /\ \/ DeepScan(c) /\ DeepConfig(c)
                           \/ ~DeepScan(c) /\ BatchConfig(c)
                        /\ c.max_workers = MaxWorkers \/ WidePool(c)
                        /\ c.request_interval = DefaultInterval \/ IntervalScan(c)}
    /\ is_cancelled = FALSE
    /\ orch_pc = "init"
    /\ seq_i = 1
    /\ consumed = {}
    /\ all_articles = <<>>
    /\ wpc = [a \in Acc |-> "idle"]
    /\ page = [a \in Acc |-> 0]
    /\ page_start = [a \in Acc |-> 0]
    /\ articles_in_range = [a \in Acc |-> <<>>]
    /\ feed = [a \in Acc |-> <<>>]
    /\ feed_done = [a \in Acc |-> FALSE]
    /\ pauses = [a \in Acc |-> <<>>]
    /\ searches = [a \in Acc |-> 0]
    /\ fetches = [a \in Acc |-> 0]
    /\ status = [a \in Acc |-> "none"]
    /\ db_batch = "none"
    /\ db_total = 0
    /\ db_articles = {}
    /\ db_completions = 0
    /\ save_errors = 0
    /\ save_raises = 0
    /\ export = <<>>
    /\ export_writes = 0
    /\ completed_events = <<>>
    /\ error_events = <<>>
    /\ progress_events = <<>>

\* ------------------------------------------------------------ orchestrator
\* _parse_date: strptime(date_str, '%Y-%m-%d').date(), None on ValueError.
ParseDate(date_str) == IF date_str \in Days THEN date_str ELSE None

\* cancel(): sets the flag; called while the thread runs.
Cancel ==
    /\ orch_pc \notin {"init", "returned"}
    /\ ~is_cancelled
    /\ is_cancelled' = TRUE
    /\ UNCHANGED <<otherVars, config, orchVars, workerVars, status, storeVars, outVars>>

\* RunBatchScraper calling create_batch before it checks the dates.
RunBatchScraperCreatesFirst ==
    /\ orch_pc = "init"
    /\ LET start_date == ParseDate(config.start_date)
           end_date == ParseDate(config.end_date)
       IN IF start_date = None \/ end_date = None \/ start_date > end_date
          THEN /\ orch_pc' = "returned"
               /\ error_events' = Append(error_events, 0)
               /\ db_batch' = IF config.use_database THEN "running" ELSE db_batch
               /\ UNCHANGED wpc
          ELSE /\ db_batch' = IF config.use_database THEN "running" ELSE db_batch
               /\ IF config.use_threading /\ config.accounts > 1
                  THEN /\ orch_pc' = "as_completed"
                       /\ wpc' = [a \in Acc |->
                                     IF a \in Accounts THEN "queued" ELSE wpc[a]]
                  ELSE /\ orch_pc' = "sequential"
                       /\ UNCHANGED wpc
               /\ UNCHANGED error_events
    /\ UNCHANGED <<otherVars, config, is_cancelled, seq_i, consumed, all_articles, page,
                   page_start, articles_in_range, feed, feed_done, pauses, searches, fetches,
                   status, db_total, db_articles, db_completions, save_errors, save_raises,
                   export, export_writes, completed_events, progress_events>>

\* _run_batch_scraper up to the dispatch: validation of the dates, create_batch,
\* and for the pooled mode the submission of every account to the executor.
RunBatchScraper ==
    /\ orch_pc = "init"
    /\ LET start_date == ParseDate(config.start_date)
           end_date == ParseDate(config.end_date)
       IN IF start_date = None \/ end_date = None \/ start_date > end_date
          THEN /\ orch_pc' = "returned"
               /\ error_events' = Append(error_events, 0)
               /\ UNCHANGED <<wpc, db_batch>>
          ELSE /\ db_batch' = IF config.use_database THEN "running" ELSE db_batch
               /\ IF config.use_threading /\ config.accounts > 1
                  THEN /\ orch_pc' = "as_completed"
                       /\ wpc' = [a \in Acc |->
                                     IF a \in Accounts THEN "queued" ELSE wpc[a]]
                  ELSE /\ orch_pc' = "sequential"
                       /\ UNCHANGED wpc
               /\ UNCHANGED error_events
    /\ UNCHANGED <<otherVars, config, is_cancelled, seq_i, consumed, all_articles, page,
                   page_start, articles_in_range, feed, feed_done, pauses, searches, fetches,
                   status, db_total, db_articles, db_completions, save_errors, save_raises,
                   export, export_writes, completed_events, progress_events>>

\* Head of the for loop of _process_accounts_sequential: the cancellation
\* check, the "processing" event, the progress event with the index i of the
\* account, and the call of _scrape_single_account, which issues get_fakid
\* first.
SeqNextAccount ==
    /\ orch_pc = "sequential"
    /\ IF seq_i > config.accounts \/ is_cancelled
       THEN /\ orch_pc' = "finalize"
            /\ UNCHANGED <<wpc, searches, status, progress_events>>
       ELSE /\ orch_pc' = "seq_scraping"
            /\ status' = [status EXCEPT ![seq_i] = "processing"]
            /\ progress_events' = Append(progress_events, seq_i - 1)
            /\ wpc' = [wpc EXCEPT ![seq_i] = "resolving"]
            /\ searches' = [searches EXCEPT ![seq_i] = @ + 1]
    /\ UNCHANGED <<otherVars, config, is_cancelled, seq_i, consumed, all_articles, page,
                   page_start, articles_in_range, feed, feed_done, pauses, fetches, storeVars,
                   export, export_writes, completed_events, error_events>>

\* _scrape_single_account returned: extend, "completed" event, next account.
SeqAccountCompleted ==
    /\ orch_pc = "seq_scraping"
    /\ wpc[seq_i] = "returned"
    /\ all_articles' = all_articles \o Tagged(seq_i, articles_in_range[seq_i])
    /\ status' = [status EXCEPT ![seq_i] = "completed"]
    /\ seq_i' = seq_i + 1
    /\ orch_pc' = "sequential"
    /\ UNCHANGED <<otherVars, config, is_cancelled, consumed, workerVars, storeVars,
                   outVars>>

\* SeqAccountError leaving the loop instead of continuing with the next account.
SeqAccountErrorAborts ==
    /\ orch_pc = "seq_scraping"
    /\ wpc[seq_i] = "raised"
    /\ status' = [status EXCEPT ![seq_i] = "error"]
    /\ error_events' = Append(error_events, seq_i)
    /\ seq_i' = seq_i + 1
    /\ orch_pc' = "finalize"
    /\ UNCHANGED <<otherVars, config, is_cancelled, consumed, all_articles, workerVars,
                   storeVars, export, export_writes, completed_events, progress_events>>

\* _scrape_single_account raised: "error" event, error_occurred, continue.
SeqAccountError ==
    /\ orch_pc = "seq_scraping"
    /\ wpc[seq_i] = "raised"
    /\ status' = [status EXCEPT ![seq_i] = "error"]
    /\ error_events' = Append(error_events, seq_i)
    /\ seq_i' = seq_i + 1
    /\ orch_pc' = "sequential"
    /\ UNCHANGED <<otherVars, config, is_cancelled, consumed, all_articles, workerVars,
                   storeVars, export, export_writes, completed_events, progress_events>>

\* WorkerTakes with a pool that starts a thread for every queued account.
WorkerTakesUnbounded(a) ==
    /\ wpc[a] = "queued"
    /\ \A b \in Accounts : b < a => wpc[b] # "queued"
    /\ wpc' = [wpc EXCEPT ![a] = "resolving"]
    /\ searches' = [searches EXCEPT ![a] = @ + 1]
    /\ UNCHANGED <<otherVars, config, is_cancelled, orchVars, page, page_start,
                   articles_in_range, feed, feed_done, pauses, fetches, status, storeVars, outVars>>

\* A pool worker takes the next queued account (the executor's queue is FIFO;
\* at most min(max_workers, len(accounts)) workers exist) and calls
\* _scrape_single_account, which issues get_fakid first.
WorkerTakes(a) ==
    /\ wpc[a] = "queued"
    /\ \A b \in Accounts : b < a => wpc[b] # "queued"
    /\ Cardinality({b \in Accounts : Running(b)}) < Min(config.max_workers, config.accounts)
    /\ wpc' = [wpc EXCEPT ![a] = "resolving"]
    /\ searches' = [searches EXCEPT ![a] = @ + 1]
    /\ UNCHANGED <<otherVars, config, is_cancelled, orchVars, page, page_start,
                   articles_in_range, feed, feed_done, pauses, fetches, status, storeVars, outVars>>

\* AsCompleted keeping only the list of the account yielded last instead of
\* extending the aggregate.
AsCompletedKeepsLast(a) ==
    /\ orch_pc = "as_completed"
    /\ a \in Accounts \ consumed
    /\ Finished(a)
    /\ IF is_cancelled
       THEN /\ orch_pc' = "shutdown"
            /\ UNCHANGED <<consumed, all_articles, status, error_events, progress_events>>
       ELSE /\ consumed' = consumed \cup {a}
            /\ orch_pc' = IF consumed' = Accounts THEN "shutdown" ELSE orch_pc
            /\ IF wpc[a] = "returned"
               THEN /\ all_articles' = Tagged(a, articles_in_range[a])
                    /\ status' = [status EXCEPT ![a] = "completed"]
                    /\ progress_events' = Append(progress_events, Cardinality(consumed'))
                    /\ UNCHANGED error_events
               ELSE /\ status' = [status EXCEPT ![a] = "error"]
                    /\ error_events' = Append(error_events, a)
                    /\ UNCHANGED <<all_articles, progress_events>>
    /\ UNCHANGED <<otherVars, config, is_cancelled, seq_i, workerVars, storeVars, export,
                   export_writes, completed_events>>

\* One iteration of the for loop over as_completed: a finished future is
\* yielded; break when cancelled, else count it (completed += 1) and collect its
\* result, with the progress event, or report its error.
AsCompleted(a) ==
    /\ orch_pc = "as_completed"
    /\ a \in Accounts \ consumed
    /\ Finished(a)
    /\ IF is_cancelled
       THEN /\ orch_pc' = "shutdown"
            /\ UNCHANGED <<consumed, all_articles, status, error_events, progress_events>>
       ELSE /\ consumed' = consumed \cup {a}
            /\ orch_pc' = IF consumed' = Accounts THEN "shutdown" ELSE orch_pc
            /\ IF wpc[a] = "returned"
               THEN /\ all_articles' = all_articles \o Tagged(a, articles_in_range[a])
                    /\ status' = [status EXCEPT ![a] = "completed"]
                    /\ progress_events' = Append(progress_events, Cardinality(consumed'))
                    /\ UNCHANGED error_events
               ELSE /\ status' = [status EXCEPT ![a] = "error"]
                    /\ error_events' = Append(error_events, a)
                    /\ UNCHANGED <<all_articles, progress_events>>
    /\ UNCHANGED <<otherVars, config, is_cancelled, seq_i, workerVars, storeVars, export,
                   export_writes, completed_events>>

\* Exit of the with block: executor.shutdown(wait=True) returns once every
\* submitted account, the still queued ones included, has run to its end.
ExecutorShutdown ==
    /\ orch_pc = "shutdown"
    /\ \A a \in Accounts : Finished(a)
    /\ orch_pc' = "finalize"
    /\ UNCHANGED <<otherVars, config, is_cancelled, seq_i, consumed, all_articles,
                   workerVars, status, storeVars, outVars>>

\* _save_results opens the output file only for a non-empty list and a
\* configured output_file.
SaveResultsWrites(articles) == articles # <<>> /\ config.output_file

\* The data rows _save_results leaves in the file.  Every article dict carries
\* a 'content' key; the DictWriter is given the column only with
\* include_content, and without it writerows raises ValueError on the first
\* row (caught and logged), after the header was written.
SaveResultsRows(articles) == IF config.include_content THEN articles ELSE <<>>

\* Finalize handing complete_batch the number of accounts that completed
\* instead of the number of articles.
FinalizeCountsAccounts ==
    /\ orch_pc = "finalize"
    /\ orch_pc' = "returned"
    /\ IF ~is_cancelled
       THEN /\ export' = IF SaveResultsWrites(all_articles)
                         THEN SaveResultsRows(all_articles) ELSE export
            /\ export_writes' = IF SaveResultsWrites(all_articles)
                                THEN export_writes + 1 ELSE export_writes
            /\ db_batch' = IF config.use_database THEN "completed" ELSE db_batch
            /\ db_total' = IF config.use_database
                            THEN Cardinality({a \in Accounts : status[a] = "completed"})
                            ELSE db_total
            /\ db_completions' = IF config.use_database
                                 THEN db_completions + 1 ELSE db_completions
            /\ completed_events' = Append(completed_events, Len(all_articles))
       ELSE UNCHANGED <<export, export_writes, db_batch, db_total, db_completions,
                         completed_events>>
    /\ UNCHANGED <<otherVars, config, is_cancelled, seq_i, consumed, all_articles,
                   workerVars, status, db_articles, save_errors, save_raises,
                   error_events, progress_events>>

\* Finalize without the test of the cancellation flag.
FinalizeIgnoresCancel ==
    /\ orch_pc = "finalize"
    /\ orch_pc' = "returned"
    /\ export' = IF SaveResultsWrites(all_articles)
                  THEN SaveResultsRows(all_articles) ELSE export
    /\ export_writes' = IF SaveResultsWrites(all_articles)
                         THEN export_writes + 1 ELSE export_writes
    /\ db_batch' = IF config.use_database THEN "completed" ELSE db_batch
    /\ db_total' = IF config.use_database THEN Len(all_articles) ELSE db_total
    /\ db_completions' = IF config.use_database THEN db_completions + 1 ELSE db_completions
    /\ completed_events' = Append(completed_events, Len(all_articles))
    /\ UNCHANGED <<otherVars, config, is_cancelled, seq_i, consumed, all_articles,
                   workerVars, status, db_articles, save_errors, save_raises,
                   error_events, progress_events>>

\* The end of _run_batch_scraper: unless cancelled, _save_results,
\* complete_batch and the batch_completed event.
Finalize ==
    /\ orch_pc = "finalize"
    /\ orch_pc' = "returned"
    /\ IF ~is_cancelled
       THEN /\ export' = IF SaveResultsWrites(all_articles)
                         THEN SaveResultsRows(all_articles) ELSE export
            /\ export_writes' = IF SaveResultsWrites(all_articles)
                                THEN export_writes + 1 ELSE export_writes
            /\ db_batch' = IF config.use_database THEN "completed" ELSE db_batch
            /\ db_total' = IF config.use_database THEN Len(all_articles) ELSE db_total
            /\ db_completions' = IF config.use_database
                                 THEN db_completions + 1 ELSE db_completions
            /\ completed_events' = Append(completed_events, Len(all_articles))
       ELSE UNCHANGED <<export, export_writes, db_batch, db_total, db_completions,
                         completed_events>>
    /\ UNCHANGED <<otherVars, config, is_cancelled, seq_i, consumed, all_articles,
                   workerVars, status, db_articles, save_errors, save_raises,
                   error_events, progress_events>>

\* ------------------------------------------------------------------ worker
\* get_fakid answers: a non-empty list (the first fakeid is used), an empty
\* list (raise Exception("account not found")) or an exception of its own.
ResolveFound(a) ==
    /\ wpc[a] = "resolving"
    /\ wpc' = [wpc EXCEPT ![a] = "loop"]
    /\ UNCHANGED <<otherVars, config, is_cancelled, orchVars, page, page_start,
                   articles_in_range, feed, feed_done, pauses, searches, fetches, status, storeVars,
                   outVars>>

ResolveFails(a) ==
    /\ wpc[a] = "resolving"
    /\ wpc' = [wpc EXCEPT ![a] = "raised"]
    /\ UNCHANGED <<otherVars, config, is_cancelled, orchVars, page, page_start,
                   articles_in_range, feed, feed_done, pauses, searches, fetches, status, storeVars,
                   outVars>>

\* LoopHead running one iteration more than range(max_pages) has.
LoopHeadOffByOne(a) ==
    /\ wpc[a] = "loop"
    /\ IF page[a] > config.max_pages_per_account \/ is_cancelled
       THEN /\ wpc' = [wpc EXCEPT ![a] = "returned"]
            /\ UNCHANGED fetches
       ELSE /\ wpc' = [wpc EXCEPT ![a] = "fetching"]
            /\ fetches' = [fetches EXCEPT ![a] = @ + 1]
    /\ UNCHANGED <<otherVars, config, is_cancelled, orchVars, page, page_start,
                   articles_in_range, feed, feed_done, pauses, searches, status, storeVars,
                   outVars>>

\* Head of the for loop over range(max_pages): exhausted or cancelled ends the
\* scan, else getAllUrl is issued for the page at page_start.
LoopHead(a) ==
    /\ wpc[a] = "loop"
    /\ IF page[a] >= config.max_pages_per_account \/ is_cancelled
       THEN /\ wpc' = [wpc EXCEPT ![a] = "returned"]
            /\ UNCHANGED fetches
       ELSE /\ wpc' = [wpc EXCEPT ![a] = "fetching"]
            /\ fetches' = [fetches EXCEPT ![a] = @ + 1]
    /\ UNCHANGED <<otherVars, config, is_cancelled, orchVars, page, page_start,
                   articles_in_range, feed, feed_done, pauses, searches, status, storeVars,
                   outVars>>

\* getAllUrl raised (transport error, malformed body): logged, continue.
FetchFails(a) ==
    /\ wpc[a] = "fetching"
    /\ wpc' = [wpc EXCEPT ![a] = "loop"]
    /\ page' = [page EXCEPT ![a] = @ + 1]
    /\ UNCHANGED <<otherVars, config, is_cancelled, orchVars, page_start, articles_in_range,
                   feed, feed_done, pauses, searches, fetches, status, storeVars, outVars>>

\* The pages the endpoint can serve at cursor page_start[a]: the items it
\* served there before when the cursor did not move on, nothing once the feed
\* has ended, else up to PageSize further items (count = 5).
ServablePages(a) ==
    IF page_start[a] < Len(feed[a])
    THEN {SubSeq(feed[a], page_start[a] + 1, Min(page_start[a] + PageSize, Len(feed[a])))}
    ELSE IF feed_done[a] THEN {<<>>}
         ELSE SeqsOf(ItemDates, 0, Min(PageSize, FeedCap - Len(feed[a])))

\* What the save_article calls for the in-window articles arts of one page can
\* do.  failed: the articles whose INSERT or commit raised, which save_article
\* logs before it returns normally.  raised_at: 0, or the index of the article
\* whose call raised before its try block (sqlite3.connect), the exception
\* leaving save_article; the articles after it are not reached.  Without a
\* store save_article is not called; failing writes are explored in the
\* batches of StoreScan.
SaveOutcomes(a, arts) ==
    IF ~StoreScan(config) THEN {[raised_at |-> 0, failed |-> {}]}
    ELSE {o \in [raised_at : 0..Len(arts), failed : SUBSET Range(Tagged(a, arts))] :
             /\ o.raised_at > 0 =>
                    o.failed \subseteq Range(Tagged(a, SubSeq(arts, 1, o.raised_at - 1)))
             /\ save_errors + save_raises + Cardinality(o.failed)
                    + (IF o.raised_at > 0 THEN 1 ELSE 0) <= MaxSaveErrors}

\* The bounds _scrape_single_account hands to random.uniform for the pause
\* after a page, under configuration c.
PauseRange(c) == DEFAULT_REQUEST_DELAY

\* getAllUrl answered with page p: empty ends the scan; else the items are
\* filtered, in-window ones appended and saved, and the scan ends or moves on.
\* An exception escaping save_article is caught by the handler of the page
\* loop: the iteration ends there and page_start is not advanced.
ProcessPage(a, p) ==
    LET r == FilterPage(p, page_start[a])
    IN /\ feed' = [feed EXCEPT ![a] = IF page_start[a] < Len(@) THEN @ ELSE @ \o p]
       /\ feed_done' = [feed_done EXCEPT ![a] = @ \/ Len(p) < PageSize]
       /\ IF p = <<>>
          THEN /\ wpc' = [wpc EXCEPT ![a] = "returned"]
               /\ UNCHANGED <<page, page_start, pauses, articles_in_range, db_articles,
                              save_errors, save_raises>>
          ELSE \E o \in SaveOutcomes(a, r.arts) :
                 LET reached == IF o.raised_at = 0 THEN r.arts
                                ELSE SubSeq(r.arts, 1, o.raised_at)
                     unwritten == IF o.raised_at = 0 THEN o.failed
                                  ELSE o.failed \cup {<<a, r.arts[o.raised_at]>>}
                 IN /\ articles_in_range' = [articles_in_range EXCEPT ![a] = @ \o reached]
                    /\ db_articles' = IF config.use_database
                                      THEN db_articles \cup (Range(Tagged(a, reached)) \ unwritten)
                                      ELSE db_articles
                    /\ save_errors' = save_errors + Cardinality(o.failed)
                    /\ save_raises' = save_raises + (IF o.raised_at > 0 THEN 1 ELSE 0)
                    /\ IF o.raised_at > 0
                       THEN /\ wpc' = [wpc EXCEPT ![a] = "loop"]
                            /\ page' = [page EXCEPT ![a] = @ + 1]
                            /\ UNCHANGED <<page_start, pauses>>
                       ELSE IF PageEndsScan(r)
                            THEN /\ wpc' = [wpc EXCEPT ![a] = "returned"]
                                 /\ UNCHANGED <<page, page_start, pauses>>
                            ELSE /\ wpc' = [wpc EXCEPT ![a] = "loop"]
                                 /\ page_start' = [page_start EXCEPT ![a] = @ + PageSize]
                                 /\ pauses' = [pauses EXCEPT ![a] =
                                                   Append(@, PauseRange(config))]
                                 /\ page' = [page EXCEPT ![a] = @ + 1]

FetchAnswered(a) ==
    /\ wpc[a] = "fetching"
    /\ \E p \in ServablePages(a) : ProcessPage(a, p)
    /\ UNCHANGED <<otherVars, config, is_cancelled, orchVars, searches, fetches, status,
                   db_batch, db_total, db_completions, outVars>>

\* requests.get is called without a timeout: a call the server never answers
\* blocks its thread for good.
NetworkStall(a) ==
    /\ wpc[a] \in {"resolving", "fetching"}
    /\ wpc' = [wpc EXCEPT ![a] = "hung"]
    /\ UNCHANGED <<otherVars, config, is_cancelled, orchVars, page, page_start,
                   articles_in_range, feed, feed_done, pauses, searches, fetches, status, storeVars,
                   outVars>>

\* ------------------------------------------------------------------- Next
Next ==
    \/ Cancel
    \/ RunBatchScraper
    \/ SeqNextAccount
    \/ SeqAccountCompleted
    \/ SeqAccountError
    \/ \E a \in Acc : AsCompleted(a)
    \/ ExecutorShutdown
    \/ Finalize
    \/ \E a \in Acc : WorkerTakes(a)
    \/ \E a \in Acc : ResolveFound(a)
    \/ \E a \in Acc : ResolveFails(a)
    \/ \E a \in Acc : LoopHead(a)
    \/ \E a \in Acc : FetchFails(a)
    \/ \E a \in Acc : FetchAnswered(a)
    \/ \E a \in Acc : NetworkStall(a)

Spec == Init /\ [][Next]_vars

\* ------------------------------------------------------------- the store
\* The batch engine before run(), with one fixed configuration: the state its
\* variables keep in the specifications of the store and of the scraper.
BatchAtRest ==
    /\ ManagerStart
    /\ config = [accounts |-> 1, start_date |-> 0, end_date |-> EndDay,
                 use_database |-> TRUE, use_threading |-> FALSE,
                 max_workers |-> MaxWorkers, max_pages_per_account |-> 1,
                 output_file |-> TRUE, include_content |-> TRUE,
                 request_interval |-> DefaultInterval]
    /\ is_cancelled = FALSE
    /\ orch_pc = "init"
    /\ seq_i = 1
    /\ consumed = {}
    /\ all_articles = <<>>
    /\ wpc = [a \in Acc |-> "idle"]
    /\ page = [a \in Acc |-> 0]
    /\ page_start = [a \in Acc |-> 0]
    /\ articles_in_range = [a \in Acc |-> <<>>]
    /\ feed = [a \in Acc |-> <<>>]
    /\ feed_done = [a \in Acc |-> FALSE]
    /\ pauses = [a \in Acc |-> <<>>]
    /\ searches = [a \in Acc |-> 0]
    /\ fetches = [a \in Acc |-> 0]
    /\ status = [a \in Acc |-> "none"]
    /\ db_batch = "none"
    /\ db_total = 0
    /\ db_articles = {}
    /\ db_completions = 0
    /\ save_errors = 0
    /\ save_raises = 0
    /\ export = <<>>
    /\ export_writes = 0
    /\ completed_events = <<>>
    /\ error_events = <<>>
    /\ progress_events = <<>>

engineVars == <<config, is_cancelled, orchVars, workerVars, status, storeVars, outVars>>
batchVars == <<engineVars, mgrVars>>

\* Two batch runs with a store (use_database), each with the batch_id of its
\* configuration: the same one or different ones (create_batch_config takes
\* batch_id from the caller, else the second of the clock).
StoreInit ==
    /\ BatchAtRest
    /\ ScraperStart
    /\ MultiStart(<<>>)
    /\ \E id \in BatchIds :
           StoreStart([t \in Callers |-> IF t = "run_1" THEN "batch_1" ELSE id])

\* with self.lock: of create_batch, at the start of a run.
CreateBatchCall(t) ==
    /\ tpc[t] = "init"
    /\ lock[t] = "free"
    /\ lock' = [lock EXCEPT ![t] = t]
    /\ tpc' = [tpc EXCEPT ![t] = "create_batch"]
    /\ UNCHANGED <<batch_articles, batch_info, now, call, run_saved, run_batch_id,
                   last_save, batchVars, scraperVars, multiVars>>

\* INSERT OR REPLACE INTO batch_info ... 'running': a row with this batch_id is
\* deleted and the new row takes the defaults of the columns not listed
\* (total_articles 0).  The lock is released on leaving the with block.
CreateBatchWrite(t) ==
    /\ tpc[t] = "create_batch"
    /\ batch_info' = [batch_info EXCEPT ![run_batch_id[t]] =
                          [status |-> "running", total_articles |-> 0]]
    /\ lock' = [lock EXCEPT ![t] = "free"]
    /\ tpc' = [tpc EXCEPT ![t] = "scanning"]
    /\ UNCHANGED <<batch_articles, now, call, run_saved, run_batch_id, last_save, batchVars,
                   scraperVars, multiVars>>

\* SaveArticleCall entering save_article without taking the lock.
SaveArticleCallUnlocked(th, art) ==
    /\ th \in Savers
    /\ tpc[Owner(th)] = "scanning"
    /\ tpc[th] = Scanning(th)
    /\ run_saved[Owner(th)] < MaxRunSaves
    /\ tpc' = [tpc EXCEPT ![th] = "save_article"]
    /\ call' = [call EXCEPT ![th] = art]
    /\ run_saved' = [run_saved EXCEPT ![Owner(th)] = @ + 1]
    /\ UNCHANGED <<batch_articles, batch_info, now, lock, run_batch_id, last_save,
                   batchVars, scraperVars, multiVars>>

\* with self.lock: of save_article(article, batch_id), called by the scan of an
\* account for an article in the window, while the run is between create_batch
\* and complete_batch.
SaveArticleCall(th, art) ==
    /\ th \in Savers
    /\ tpc[Owner(th)] = "scanning"
    /\ tpc[th] = Scanning(th)
    /\ run_saved[Owner(th)] < MaxRunSaves
    /\ lock[Owner(th)] = "free"
    /\ lock' = [lock EXCEPT ![Owner(th)] = th]
    /\ tpc' = [tpc EXCEPT ![th] = "save_article"]
    /\ call' = [call EXCEPT ![th] = art]
    /\ run_saved' = [run_saved EXCEPT ![Owner(th)] = @ + 1]
    /\ UNCHANGED <<batch_articles, batch_info, now, run_batch_id, last_save, batchVars,
                   scraperVars, multiVars>>

\* The row INSERT OR REPLACE writes for the call of th: the columns listed take
\* the arguments, created_at its default, the clock.
NewRow(th) ==
    [link |-> call[th].link, title |-> call[th].title, digest |-> call[th].digest,
     content |-> call[th].content, batch_id |-> run_batch_id[Owner(th)],
     created_at |-> now]

\* INSERT that leaves a stored row of the link as it is (INSERT OR IGNORE).
InsertOrIgnore(rows, row) ==
    IF RowsOf(rows, row.link) # {} THEN rows ELSE rows \cup {row}

\* INSERT OR REPLACE under UNIQUE(link): the rows in conflict are deleted, then
\* the new row is inserted.
InsertOrReplace(rows, row) == (rows \ RowsOf(rows, row.link)) \cup {row}

\* cursor.execute(INSERT OR REPLACE ...) and conn.commit() of save_article, then
\* the release of the lock.
SaveArticleWrite(th) ==
    /\ tpc[th] = "save_article"
    /\ batch_articles' = InsertOrReplace(batch_articles, NewRow(th))
    /\ last_save' = [last_save EXCEPT ![call[th].link] =
                         [title |-> call[th].title, digest |-> call[th].digest,
                          content |-> call[th].content,
                          batch_id |-> run_batch_id[Owner(th)],
                          replaced |-> RowsOf(batch_articles, call[th].link) # {}]]
    /\ lock' = [lock EXCEPT ![Owner(th)] = "free"]
    /\ tpc' = [tpc EXCEPT ![th] = Scanning(th)]
    /\ call' = [call EXCEPT ![th] = NoCall]
    /\ UNCHANGED <<batch_info, now, run_saved, run_batch_id, batchVars, scraperVars, multiVars>>

\* The write raises: inside the try (sqlite3.Error of execute or commit; except
\* logs it, finally closes the connection) or before it (sqlite3.connect; the
\* exception leaves save_article and is caught by the page loop).  Either way
\* the with block releases the lock and the scan goes on.
SaveArticleFails(th) ==
    /\ tpc[th] = "save_article"
    /\ lock' = [lock EXCEPT ![Owner(th)] = "free"]
    /\ tpc' = [tpc EXCEPT ![th] = Scanning(th)]
    /\ call' = [call EXCEPT ![th] = NoCall]
    /\ UNCHANGED <<batch_articles, batch_info, now, run_saved, run_batch_id, last_save,
                   batchVars, scraperVars, multiVars>>

\* with self.lock: of complete_batch(batch_id, len(all_articles)), at the end
\* of an uncancelled run, after the pool of a threaded run has shut down.
CompleteBatchCall(t) ==
    /\ tpc[t] = "scanning"
    /\ \A w \in Workers : Owner(w) = t => tpc[w] = "idle"
    /\ lock[t] = "free"
    /\ lock' = [lock EXCEPT ![t] = t]
    /\ tpc' = [tpc EXCEPT ![t] = "complete_batch"]
    /\ UNCHANGED <<batch_articles, batch_info, now, call, run_saved, run_batch_id,
                   last_save, batchVars, scraperVars, multiVars>>

\* UPDATE batch_info SET status = 'completed', total_articles = ? WHERE
\* batch_id = ?, then the release of the lock.
CompleteBatchWrite(t) ==
    /\ tpc[t] = "complete_batch"
    /\ batch_info' = [b \in BatchIds |->
                         IF b = run_batch_id[t] /\ batch_info[b] # NoRow
                         THEN [status |-> "completed", total_articles |-> run_saved[t]]
                         ELSE batch_info[b]]
    /\ lock' = [lock EXCEPT ![t] = "free"]
    /\ tpc' = [tpc EXCEPT ![t] = "done"]
    /\ UNCHANGED <<batch_articles, now, call, run_saved, run_batch_id, last_save, batchVars,
                   scraperVars, multiVars>>

\* create_batch or complete_batch raises (sqlite3.Error): the with block
\* releases the lock, the exception reaches run(), which logs it, emits
\* error_occurred and returns.
BatchWriteRaises(t) ==
    /\ tpc[t] \in {"create_batch", "complete_batch"}
    /\ lock' = [lock EXCEPT ![t] = "free"]
    /\ tpc' = [tpc EXCEPT ![t] = "failed"]
    /\ UNCHANGED <<batch_articles, batch_info, now, call, run_saved, run_batch_id,
                   last_save, batchVars, scraperVars, multiVars>>

\* A second passes (the clock counts from the first row written).
Tick ==
    /\ now < MaxClock
    /\ batch_articles # {}
    /\ now' = now + 1
    /\ UNCHANGED <<batch_articles, batch_info, lock, tpc, call, run_saved, run_batch_id,
                   last_save, batchVars, scraperVars, multiVars>>

StoreNext ==
    \/ \E t \in Callers : CreateBatchCall(t)
    \/ \E t \in Callers : CreateBatchWrite(t)
    \/ \E th \in Threads : \E art \in Articles : SaveArticleCall(th, art)
    \/ \E th \in Threads : SaveArticleWrite(th)
    \/ \E th \in Threads : SaveArticleFails(th)
    \/ \E t \in Callers : CompleteBatchCall(t)
    \/ \E t \in Callers : CompleteBatchWrite(t)
    \/ \E t \in Callers : BatchWriteRaises(t)
    \/ Tick

StoreSpec == StoreInit /\ [][StoreNext]_vars

\* ------------------------------------------------- the standalone scraper
\* What a response that arrived (HTTP 200) can hold.  Search: a non-empty
\* list, an empty list, an envelope with ret # 0 (the auth-failure codes apart),
\* a body that is not JSON.  Listing: a full page without a too-old item, a
\* page that ends the scan (short, or holding a too-old item), no app_msg_list,
\* and the same failures.
SearchBodies == {"found", "empty", "ret", "auth", "bad_json"}
ListBodies == {"more", "last", "none", "ret", "auth", "bad_json"}

ScraperInit ==
    /\ BatchAtRest
    /\ StoreStart([t \in Callers |-> "batch_1"])
    /\ ScraperStart
    /\ MultiStart(<<>>)

\* _make_request is entered for account a: the first requests.get is sent.
SendRequest(a) ==
    /\ m_pc' = "sending"
    /\ m_i' = 0
    /\ m_requests' = 1
    /\ m_sleeps' = 0
    /\ m_response' = "none"
    /\ s_calls' = [s_calls EXCEPT ![a] = @ + 1]

\* _make_request has returned and its caller has read the result.
RequestConsumed ==
    /\ m_pc' = "idle"
    /\ m_i' = 0
    /\ m_requests' = 0
    /\ m_sleeps' = 0
    /\ m_response' = "none"

\* send_status_update.
Emit(evs, a, st) == Append(evs, <<a, st>>)

\* run() up to the loop: the dates and the login cache are checked.
ScraperRun ==
    /\ s_pc = "init"
    /\ \E ready \in BOOLEAN : s_pc' = IF ready THEN "loop" ELSE "exited"
    /\ UNCHANGED <<s_i, s_begin, s_events, s_error, s_calls, s_auth, enrichVars, m_pc, m_i,
                   m_requests, m_sleeps, m_response, batchVars, tableVars, multiVars>>

\* Head of the for loop of run(): 'pending', then scrape_articles_by_account
\* up to its search request: 'processing' and _make_request.
RunNextAccount ==
    /\ s_pc = "loop"
    /\ IF s_i > NumAccounts
       THEN /\ s_pc' = "finally"
            /\ UNCHANGED <<s_events, s_calls, s_articles, m_pc, m_i, m_requests, m_sleeps,
                           m_response>>
       ELSE /\ s_pc' = "search"
            /\ s_events' = Emit(Emit(s_events, s_i, "pending"), s_i, "processing")
            /\ s_articles' = <<>>
            /\ SendRequest(s_i)
    /\ s_begin' = 0
    /\ UNCHANGED <<s_i, s_error, s_auth, s_db, s_warnings, s_write_failures, batchVars,
                   tableVars, multiVars>>

\* requests.get returned and raise_for_status passed: return response.
RequestSucceeds ==
    /\ m_pc = "sending"
    /\ m_pc' = "done"
    /\ m_response' = "response"
    /\ UNCHANGED <<s_pc, s_i, s_begin, s_events, s_error, s_calls, s_auth, enrichVars, m_i,
                   m_requests, m_sleeps, batchVars, tableVars, multiVars>>

\* RequestFails going round once more than range(RETRY_COUNT + 1) does.
RequestFailsRetriesOnceMore ==
    /\ m_pc = "sending"
    /\ IF m_i <= RETRY_COUNT
       THEN /\ m_sleeps' = m_sleeps + 1
            /\ m_i' = m_i + 1
            /\ m_requests' = m_requests + 1
            /\ UNCHANGED <<m_pc, m_response>>
       ELSE /\ m_pc' = "done"
            /\ m_response' = "None"
            /\ UNCHANGED <<m_i, m_requests, m_sleeps>>
    /\ UNCHANGED <<s_pc, s_i, s_begin, s_events, s_error, s_calls, s_auth, enrichVars, batchVars,
                   tableVars, multiVars>>

\* requests.get or raise_for_status raised a RequestException (the timeout of
\* 20 s included): sleep and send again while i < RETRY_COUNT, else return None.
RequestFails ==
    /\ m_pc = "sending"
    /\ IF m_i < RETRY_COUNT
       THEN /\ m_sleeps' = m_sleeps + 1
            /\ m_i' = m_i + 1
            /\ m_requests' = m_requests + 1
            /\ UNCHANGED <<m_pc, m_response>>
       ELSE /\ m_pc' = "done"
            /\ m_response' = "None"
            /\ UNCHANGED <<m_i, m_requests, m_sleeps>>
    /\ UNCHANGED <<s_pc, s_i, s_begin, s_events, s_error, s_calls, s_auth, enrichVars, batchVars,
                   tableVars, multiVars>>

\* The error text of the 'error' line that ends the search of an account
\* (the texts of the program are Chinese; 'JSON解析失败' is "JSON parse failed").
SearchError(response, body) ==
    IF response # "response" THEN "search request failed"
    ELSE IF body \in {"ret", "auth"} THEN "err_msg"
    ELSE IF body = "empty" THEN "account not found"
    ELSE "JSON parse failed"

\* The error text of the 'error' line that ends the listing of an account.
ListError(response, body) ==
    IF response # "response" THEN "request failed"
    ELSE IF body = "ret" THEN "err_msg"
    ELSE IF body = "bad_json" THEN "JSON parse failed"
    ELSE "str(e)"

\* scrape_articles_by_account after its search request: no response, an
\* envelope with ret # 0, an empty list or an unreadable body end the account
\* with 'error' and return []; else the listing loop is entered.
SearchAnswered ==
    /\ s_pc = "search"
    /\ m_pc = "done"
    /\ RequestConsumed
    /\ \E body \in SearchBodies :
          IF m_response = "response" /\ body = "found"
          THEN /\ s_pc' = "page_head"
               /\ UNCHANGED <<s_i, s_events, s_error, s_auth>>
          ELSE /\ s_pc' = "loop"
               /\ s_i' = s_i + 1
               /\ s_events' = Emit(s_events, s_i, "error")
               /\ s_error' = SearchError(m_response, body)
               /\ s_auth' = IF m_response = "response" /\ body = "auth" /\ s_auth = 0
                            THEN s_i ELSE s_auth
    /\ UNCHANGED <<s_begin, s_calls, enrichVars, batchVars, tableVars, multiVars>>

\* Head of while has_more: 'processing' with the page number, _make_request.
PageHead ==
    /\ s_pc = "page_head"
    /\ s_pc' = "list"
    /\ s_events' = Emit(s_events, s_i, "processing")
    /\ SendRequest(s_i)
    /\ UNCHANGED <<s_i, s_begin, s_error, s_auth, enrichVars, batchVars, tableVars,
                   multiVars>>

\* What the request of extract_content and the parsing of its answer can come
\* to: a body with text, a body without text, or an exception (of the request:
\* timeout, connection error, HTTP error status; of the parser).
ExtractOutcomes == {"text", "no_text", "request_error", "parse_error"}
ExtractFailures == {"request_error", "parse_error"}

\* ExtractContent letting the exception of a failed extraction escape.
ExtractContentRaises(o) ==
    IF o \in ExtractFailures THEN "raised"
    ELSE IF o = "text" THEN "content_text[:5000]" ELSE ""

\* extract_content(url): the text of the content area cut to 5000 characters,
\* '' when there is no text, and '' when anything raised (logged as a warning).
ExtractContent(o) ==
    IF o \in ExtractFailures THEN ""
    ELSE IF o = "text" THEN "content_text[:5000]" ELSE ""

\* What DatabaseManager.save_article can come to: the row is written; the
\* write raises and is logged, the call returns; sqlite3.connect raises before
\* the try and the exception leaves the call.
WriteOutcomes == {"written", "logged", "raised"}

\* The items of its whose extraction raised, and those whose save_article call
\* wrote no row.
ExtractFailed(its) == {i \in 1..Len(its) : its[i].enrich \in ExtractFailures}
WriteFailed(its) == {i \in 1..Len(its) : its[i].save # "written"}

\* The in-window items of a listing page: for each its extraction outcome and
\* the outcome of its save_article call; a call that raised ends the page.
\* The pages of the last account of the list have such items, the pages of
\* the accounts before it have none.
PageItems ==
    {its \in SeqsOf([enrich : ExtractOutcomes, save : WriteOutcomes], 0,
                    IF s_i = NumAccounts THEN MaxPageArticles - Len(s_articles) ELSE 0) :
        /\ \A i \in 1..(Len(its) - 1) : its[i].save # "raised"
        /\ s_warnings + s_write_failures + Cardinality(ExtractFailed(its))
               + Cardinality(WriteFailed(its)) <= MaxSaveErrors}

\* extract_article_info for the n-th article of account a: EXTRACT_CONTENT is
\* on, the content is what extract_content returns.
ArticleInfo(a, n, item) ==
    [link |-> <<a, n>>, content |-> ExtractContent(item.enrich),
     enrich |-> item.enrich, save |-> item.save]

\* The rest of the iteration.  No response, ret # 0 or an unreadable body:
\* 'error' and break; an auth-failure code: SystemExit, caught by run(); a page:
\* its in-window items are enriched, appended and saved, and has_more decides;
\* an exception leaving save_article is caught at the end of the iteration:
\* 'error' and break.  After the loop 'completed' is sent and the account's
\* list returned to run().
ListAnswered ==
    /\ s_pc = "list"
    /\ m_pc = "done"
    /\ RequestConsumed
    /\ \E body \in ListBodies : \E its \in PageItems :
          LET served == m_response = "response" /\ body \in {"more", "last"}
              raised == its # <<>> /\ its[Len(its)].save = "raised"
              new == [i \in 1..Len(its) |-> ArticleInfo(s_i, Len(s_articles) + i, its[i])]
          IN /\ ~served => its = <<>>
             /\ s_articles' = s_articles \o new
             /\ s_db' = s_db \cup {[link |-> new[i].link, content |-> new[i].content] :
                                      i \in {k \in 1..Len(its) : its[k].save = "written"}}
             /\ s_warnings' = s_warnings + Cardinality(ExtractFailed(its))
             /\ s_write_failures' = s_write_failures + Cardinality(WriteFailed(its))
             /\ IF m_response = "response" /\ body = "auth"
                THEN /\ s_pc' = "finally"
                     /\ s_auth' = IF s_auth = 0 THEN s_i ELSE s_auth
                     /\ UNCHANGED <<s_i, s_begin, s_events, s_error>>
                ELSE IF served /\ body = "more" /\ ~raised
                THEN /\ s_begin < (MaxListPages - 1) * PageSize
                     /\ s_pc' = "page_head"
                     /\ s_begin' = s_begin + PageSize
                     /\ UNCHANGED <<s_i, s_events, s_error, s_auth>>
                ELSE /\ s_pc' = "loop"
                     /\ s_i' = s_i + 1
                     /\ IF m_response = "response" /\ body \in {"more", "last", "none"}
                           /\ ~raised
                        THEN /\ s_events' = Emit(s_events, s_i, "completed")
                             /\ UNCHANGED s_error
                        ELSE /\ s_events' = Emit(Emit(s_events, s_i, "error"), s_i,
                                                  "completed")
                             /\ s_error' = ListError(m_response, body)
                     /\ UNCHANGED <<s_begin, s_auth>>
    /\ UNCHANGED <<s_calls, batchVars, tableVars, multiVars>>

\* The finally block of run(): the CSV file and the closing log lines.
RunFinally ==
    /\ s_pc = "finally"
    /\ s_pc' = "exited"
    /\ UNCHANGED <<s_i, s_begin, s_events, s_error, s_calls, s_auth, enrichVars, m_pc, m_i,
                   m_requests, m_sleeps, m_response, batchVars, tableVars, multiVars>>

ScraperNext ==
    \/ ScraperRun
    \/ RunNextAccount
    \/ RequestSucceeds
    \/ RequestFails
    \/ SearchAnswered
    \/ PageHead
    \/ ListAnswered
    \/ RunFinally

ScraperSpec == ScraperInit /\ [][ScraperNext]_vars

\* ------------------------------------------------------ the downloader
MultiInit ==
    /\ BatchAtRest
    /\ StoreStart([t \in Callers |-> "batch_1"])
    /\ ScraperStart
    /\ \E list \in SeqsOf(Urls, 0, MaxUrls) : MultiStart(list)

\* getUrlList: [idx, row] for idx, row in enumerate(reader).
GetUrlList(rows) == [i \in 1..Len(rows) |-> <<i - 1, rows[i]>>]

\* run_getContentsByUrls_MultiThread up to the joins: the url file is read,
\* every [idx, url] is put on url_queue, the crawl threads and then the parse
\* threads are started.
MultiStartThreads ==
    /\ main_pc = "init"
    /\ url_queue' = GetUrlList(url_list)
    /\ response_queue' = <<>>
    /\ craw_pc' = [t \in CrawThreads |-> "check"]
    /\ parse_pc' = [t \in ParseThreads |-> "sleep"]
    /\ main_pc' = "join"
    /\ UNCHANGED <<url_list, contents, craw_url, parse_response, invocation, content_file,
                   batchVars, tableVars, scraperVars>>

\* do_craw: while url_queue.empty() != True.
CrawCheck(t) ==
    /\ craw_pc[t] = "check"
    /\ craw_pc' = [craw_pc EXCEPT ![t] = IF url_queue = <<>> THEN "done" ELSE "get"]
    /\ UNCHANGED <<url_list, url_queue, response_queue, contents, craw_url, parse_pc,
                   parse_response, main_pc, invocation, content_file, batchVars, tableVars,
                   scraperVars>>

\* do_craw: url = url_queue.get(), which blocks while the queue is empty; then
\* requests.get is sent.
CrawGet(t) ==
    /\ craw_pc[t] = "get"
    /\ url_queue # <<>>
    /\ craw_url' = [craw_url EXCEPT ![t] = Head(url_queue)]
    /\ url_queue' = Tail(url_queue)
    /\ craw_pc' = [craw_pc EXCEPT ![t] = "request"]
    /\ UNCHANGED <<url_list, response_queue, contents, parse_pc, parse_response, main_pc, invocation,
                   content_file, batchVars, tableVars, scraperVars>>

\* do_craw: requests.get returned; response_queue.put([url[0], response]), the
\* sleep, and back to the head of the loop.
CrawPut(t) ==
    /\ craw_pc[t] = "request"
    /\ response_queue' = Append(response_queue, <<craw_url[t][1], craw_url[t][2]>>)
    /\ craw_url' = [craw_url EXCEPT ![t] = NoItem]
    /\ craw_pc' = [craw_pc EXCEPT ![t] = "check"]
    /\ UNCHANGED <<url_list, url_queue, contents, parse_pc, parse_response, main_pc, invocation,
                   content_file, batchVars, tableVars, scraperVars>>

\* do_craw: requests.get raised (nothing catches it): the thread ends, its url
\* is put nowhere.
CrawRequestRaises(t) ==
    /\ craw_pc[t] = "request"
    /\ craw_url' = [craw_url EXCEPT ![t] = NoItem]
    /\ craw_pc' = [craw_pc EXCEPT ![t] = "done"]
    /\ UNCHANGED <<url_list, url_queue, response_queue, contents, parse_pc,
                   parse_response, main_pc, invocation, content_file, batchVars, tableVars,
                   scraperVars>>

\* do_craw: requests.get is called without a timeout: a request the server
\* never answers blocks the thread for good.
CrawRequestStalls(t) ==
    /\ craw_pc[t] = "request"
    /\ craw_pc' = [craw_pc EXCEPT ![t] = "hung"]
    /\ UNCHANGED <<url_list, url_queue, response_queue, contents, craw_url, parse_pc,
                   parse_response, main_pc, invocation, content_file, batchVars, tableVars,
                   scraperVars>>

\* do_parse: time.sleep(2) is over.
ParseWakes(t) ==
    /\ parse_pc[t] = "sleep"
    /\ parse_pc' = [parse_pc EXCEPT ![t] = "check"]
    /\ UNCHANGED <<url_list, url_queue, response_queue, contents, craw_pc, craw_url,
                   parse_response, main_pc, invocation, content_file, batchVars, tableVars,
                   scraperVars>>

\* do_parse: while response_queue.empty() != True.
ParseCheck(t) ==
    /\ parse_pc[t] = "check"
    /\ parse_pc' = [parse_pc EXCEPT ![t] =
                       IF response_queue = <<>> THEN "done" ELSE "get"]
    /\ UNCHANGED <<url_list, url_queue, response_queue, contents, craw_pc, craw_url,
                   parse_response, main_pc, invocation, content_file, batchVars, tableVars,
                   scraperVars>>

\* do_parse: response = response_queue.get(), which blocks while the queue is
\* empty.
ParseGet(t) ==
    /\ parse_pc[t] = "get"
    /\ response_queue # <<>>
    /\ parse_response' = [parse_response EXCEPT ![t] = Head(response_queue)]
    /\ response_queue' = Tail(response_queue)
    /\ parse_pc' = [parse_pc EXCEPT ![t] = "parse"]
    /\ UNCHANGED <<url_list, url_queue, contents, craw_pc, craw_url, main_pc, invocation,
                   content_file, batchVars, tableVars, scraperVars>>

\* The text of the <p> tags of the page of url.
ParsedText(url) == <<"text of", url>>

\* do_parse: the page is parsed, [idx, content] appended to contents, the
\* sleep, and back to the head of the loop.
ParseAppend(t) ==
    /\ parse_pc[t] = "parse"
    /\ contents' = Append(contents, <<parse_response[t][1],
                                       ParsedText(parse_response[t][2])>>)
    /\ parse_response' = [parse_response EXCEPT ![t] = NoItem]
    /\ parse_pc' = [parse_pc EXCEPT ![t] = "check"]
    /\ UNCHANGED <<url_list, url_queue, response_queue, craw_pc, craw_url, main_pc, invocation,
                   content_file, batchVars, tableVars, scraperVars>>

\* contents.sort(key=lambda x: x[0]): a stable sort on idx.
RECURSIVE SortByIdx(_)
SortByIdx(cs) ==
    IF cs = <<>> THEN <<>>
    ELSE LET m == CHOOSE i \in 1..Len(cs) :
                      /\ \A j \in 1..Len(cs) : cs[i][1] <= cs[j][1]
                      /\ \A j \in 1..(i - 1) : cs[j][1] # cs[i][1]
         IN <<cs[m]>> \o SortByIdx(SubSeq(cs, 1, m - 1) \o SubSeq(cs, m + 1, Len(cs)))

\* The joins have returned (every thread has ended): contents is sorted in
\* place and the content of each entry written as a row of the content file.
MultiJoin ==
    /\ main_pc = "join"
    /\ \A t \in CrawThreads : craw_pc[t] = "done"
    /\ \A t \in ParseThreads : parse_pc[t] = "done"
    /\ contents' = SortByIdx(contents)
    /\ content_file' = [i \in 1..Len(contents) |-> SortByIdx(contents)[i][2]]
    /\ main_pc' = "returned"
    /\ UNCHANGED <<url_list, url_queue, response_queue, craw_pc, craw_url, parse_pc,
                   parse_response, invocation, batchVars, tableVars, scraperVars>>

\* The process calls run_getContentsByUrls_MultiThread again, on another url
\* file: the queues, the threads and the output file are new, the module-level
\* list contents is the one the call before left.
MultiCalledAgain ==
    /\ main_pc = "returned"
    /\ invocation < MaxInvocations
    /\ invocation' = invocation + 1
    /\ url_list' \in SeqsOf(Urls, 0, MaxUrls)
    /\ url_queue' = <<>>
    /\ response_queue' = <<>>
    /\ craw_pc' = [t \in CrawThreads |-> "unstarted"]
    /\ parse_pc' = [t \in ParseThreads |-> "unstarted"]
    /\ main_pc' = "init"
    /\ content_file' = NoFile
    /\ UNCHANGED <<contents, craw_url, parse_response, batchVars, tableVars, scraperVars>>

MultiNext ==
    \/ MultiStartThreads
    \/ \E t \in CrawThreads : CrawCheck(t)
    \/ \E t \in CrawThreads : CrawGet(t)
    \/ \E t \in CrawThreads : CrawPut(t)
    \/ \E t \in CrawThreads : CrawRequestRaises(t)
    \/ \E t \in CrawThreads : CrawRequestStalls(t)
    \/ \E t \in ParseThreads : ParseWakes(t)
    \/ \E t \in ParseThreads : ParseCheck(t)
    \/ \E t \in ParseThreads : ParseGet(t)
    \/ \E t \in ParseThreads : ParseAppend(t)
    \/ MultiJoin
    \/ MultiCalledAgain

MultiSpec == MultiInit /\ [][MultiNext]_vars

\* ------------------------------------------------------------ the manager
\* The engine of each thread stays out of this machine: a thread is running
\* from start() until its run() returns, which it does on its own or after
\* cancel(); a run() blocked in a network call never returns.
ManagerInit ==
    /\ BatchAtRest
    /\ StoreStart([t \in Callers |-> "batch_1"])
    /\ ScraperStart
    /\ MultiStart(<<>>)

\* QThread.isRunning().
IsRunning(i) == th_state[i] \in {"running", "hung"}

\* self.current_thread and self.current_thread.isRunning().
CurrentIsRunning == current_thread # 0 /\ IsRunning(current_thread)

\* self.current_thread = BatchScraperThread(config), the signal connections
\* and self.current_thread.start().
StartThread ==
    /\ current_thread' = current_thread + 1
    /\ th_state' = [th_state EXCEPT ![current_thread + 1] = "running"]
    /\ mgr_pc' = "idle"

\* StartBatchScrape that cancels the running thread but does not wait for it.
StartBatchScrapeNoWait ==
    /\ mgr_pc = "idle"
    /\ current_thread < MaxThreads
    /\ th_cancelled' = IF CurrentIsRunning
                       THEN [th_cancelled EXCEPT ![current_thread] = TRUE]
                       ELSE th_cancelled
    /\ StartThread
    /\ UNCHANGED <<mgr_cancels, engineVars, tableVars, scraperVars, multiVars>>

\* start_batch_scrape(config): a running thread is cancelled and waited for;
\* otherwise the new thread is created and started at once.
StartBatchScrape ==
    /\ mgr_pc = "idle"
    /\ current_thread < MaxThreads
    /\ IF CurrentIsRunning
       THEN /\ th_cancelled' = [th_cancelled EXCEPT ![current_thread] = TRUE]
            /\ mgr_pc' = "start_wait"
            /\ UNCHANGED <<current_thread, th_state>>
       ELSE /\ StartThread
            /\ UNCHANGED th_cancelled
    /\ UNCHANGED <<mgr_cancels, engineVars, tableVars, scraperVars, multiVars>>

\* self.current_thread.wait() of start_batch_scrape returns: the thread has
\* finished; the new thread is created and started.
StartWaitReturns ==
    /\ mgr_pc = "start_wait"
    /\ ~IsRunning(current_thread)
    /\ StartThread
    /\ UNCHANGED <<th_cancelled, mgr_cancels, engineVars, tableVars, scraperVars,
                   multiVars>>

\* cancel_batch_scrape(): a running thread is cancelled and waited for; with
\* no running thread the call does nothing.
CancelBatchScrape ==
    /\ mgr_pc = "idle"
    /\ mgr_cancels < MaxCancels
    /\ mgr_cancels' = mgr_cancels + 1
    /\ IF CurrentIsRunning
       THEN /\ th_cancelled' = [th_cancelled EXCEPT ![current_thread] = TRUE]
            /\ mgr_pc' = "cancel_wait"
       ELSE UNCHANGED <<th_cancelled, mgr_pc>>
    /\ UNCHANGED <<current_thread, th_state, engineVars, tableVars, scraperVars,
                   multiVars>>

\* self.current_thread.wait() of cancel_batch_scrape returns.
CancelWaitReturns ==
    /\ mgr_pc = "cancel_wait"
    /\ ~IsRunning(current_thread)
    /\ mgr_pc' = "idle"
    /\ UNCHANGED <<current_thread, th_state, th_cancelled, mgr_cancels, engineVars,
                   tableVars, scraperVars, multiVars>>

\* run() of thread i returns: the batch is done, or the scan saw the flag.
ThreadFinishes(i) ==
    /\ th_state[i] = "running"
    /\ th_state' = [th_state EXCEPT ![i] = "finished"]
    /\ UNCHANGED <<current_thread, th_cancelled, mgr_pc, mgr_cancels, engineVars,
                   tableVars, scraperVars, multiVars>>

\* run() of thread i blocks for good in a request that is never answered.
ThreadStalls(i) ==
    /\ th_state[i] = "running"
    /\ th_state' = [th_state EXCEPT ![i] = "hung"]
    /\ UNCHANGED <<current_thread, th_cancelled, mgr_pc, mgr_cancels, engineVars,
                   tableVars, scraperVars, multiVars>>

ManagerNext ==
    \/ StartBatchScrape
    \/ StartWaitReturns
    \/ CancelBatchScrape
    \/ CancelWaitReturns
    \/ \E i \in ThreadIds : ThreadFinishes(i)
    \/ \E i \in ThreadIds : ThreadStalls(i)

ManagerSpec == ManagerInit /\ [][ManagerNext]_vars

\* ------------------------------------------------------- claim vocabulary
ValidWindow ==
    /\ config.start_date \in Days
    /\ config.end_date \in Days
    /\ config.start_date <= config.end_date

\* Fetches of account a that raised: each costs an iteration, none moves the cursor.
FailedFetches(a) == page[a] - page_start[a] \div PageSize

ReverseChronological(f) == \A i, j \in 1..Len(f) : i < j => f[i] >= f[j]

InWindow(d) == config.start_date <= d /\ d <= config.end_date

\* Positions of the items of f, from position lo on, that are in the window and
\* have no item older than start_date at or before them (from lo on).
WindowPositions(f, lo) ==
    SelectSeq([i \in 1..(Len(f) - lo + 1) |-> lo + i - 1],
              LAMBDA i : /\ InWindow(f[i])
                         /\ \A j \in lo..i : f[j] >= config.start_date)

\* What a run leaves behind: the rows of the store and of the export file.
Persisted == db_articles \cup Range(export)

\* C1: after cancel(), an account that has not started processing makes no
\* network call, neither the search nor a page fetch.
C1_NoCallAfterCancel ==
    [][\A a \in Acc :
          (is_cancelled /\ wpc[a] \in {"idle", "queued"})
              => (searches'[a] = searches[a] /\ fetches'[a] = fetches[a])]_vars

\* C2: once run() has returned from a cancelled batch whose BatchRun record
\* exists, the record's status is cancelled.
C2_CancelledBatchMarkedCancelled ==
    (orch_pc = "returned" /\ is_cancelled /\ db_batch # "none")
        => db_batch = "cancelled"

\* C3: once run() has returned from a cancelled batch, every in-window article
\* an account collected is in the store or in the export file.
C3_CancelKeepsArticles ==
    (orch_pc = "returned" /\ is_cancelled)
        => \A a \in Accounts : Range(Tagged(a, articles_in_range[a])) \subseteq Persisted

\* C4: a page fetch in flight when cancel() is called is answered and filtered
\* in full, its in-window articles are persisted, and once the flag is set no
\* further page fetch is issued.
C4_CooperativeCancel ==
    [][/\ is_cancelled => fetches' = fetches
       /\ \A a \in Acc :
            (is_cancelled /\ wpc[a] = "fetching" /\ wpc'[a] \notin {"fetching", "hung"})
                => LET got == WindowPositions(feed'[a], Len(feed[a]) + 1)
                   IN /\ articles_in_range'[a] = articles_in_range[a] \o got
                      /\ Range(Tagged(a, got)) \subseteq Persisted']_vars

\* C5: in an uncancelled batch an account whose scrape raised is the only kind
\* marked error; every account is scraped, and each one that returned is marked
\* completed with all its articles in the aggregate.
C5_ErrorsIsolated ==
    (orch_pc = "returned" /\ ~is_cancelled /\ ValidWindow)
        => \A a \in Accounts :
              /\ Finished(a) /\ searches[a] = 1
              /\ wpc[a] = "raised"
                    => status[a] = "error" /\ ArticlesOf(all_articles, a) = <<>>
              /\ wpc[a] = "returned"
                    => /\ status[a] = "completed"
                       /\ ArticlesOf(all_articles, a) = Tagged(a, articles_in_range[a])

C5_Witness ==
    /\ orch_pc = "returned" /\ ~is_cancelled /\ config.use_threading
    /\ \E a, b \in Accounts :
          /\ a < b /\ wpc[a] = "raised" /\ status[a] = "error"
          /\ ArticlesOf(all_articles, b) # <<>>

\* C6: no listing page is fetched for an account that has been served an item
\* dated before start_date.
C6_StopsAtFirstOld ==
    \A a \in Acc :
        wpc[a] = "fetching" => \A i \in 1..Len(feed[a]) : feed[a][i] >= config.start_date

\* C7: a scan of a reverse-chronological feed that no fetch failure, no
\* cancellation and no page cap cut short returns exactly the in-window items
\* that precede the first item older than start_date: what it returns is the
\* window of the items served, and it has been served the feed to its end or
\* to an item older than start_date.
C7_ExactWindow ==
    \A a \in Accounts :
        (/\ wpc[a] = "returned" /\ ~is_cancelled
         /\ FailedFetches(a) = 0
         /\ page[a] < config.max_pages_per_account
         /\ ReverseChronological(feed[a]))
            => /\ articles_in_range[a] = WindowPositions(feed[a], 1)
               /\ feed_done[a] \/ \E i \in 1..Len(feed[a]) : feed[a][i] < config.start_date

C7_Witness ==
    \E a \in Accounts :
        /\ wpc[a] = "returned" /\ ~is_cancelled
        /\ FailedFetches(a) = 0
        /\ page[a] < config.max_pages_per_account
        /\ ReverseChronological(feed[a])
        /\ Len(feed[a]) > PageSize
        /\ \A i \in 1..PageSize : feed[a][i] > config.end_date
        /\ articles_in_range[a] # <<>>
        /\ config.start_date = config.end_date

\* C8: no listing page is fetched for an account that has been served a page
\* of fewer than PageSize items.
C8_ShortPageEndsScan ==
    \A a \in Acc : wpc[a] = "fetching" => ~feed_done[a]

\* C9: an account issues at most max_pages_per_account listing-page fetches,
\* the failed ones included.
C9_PageCap ==
    \A a \in Acc : fetches[a] <= config.max_pages_per_account

C9_Witness ==
    \E a \in Accounts :
        /\ fetches[a] = config.max_pages_per_account
        /\ config.max_pages_per_account > 1
        /\ FailedFetches(a) > 0
        /\ wpc[a] = "returned"
        /\ page[a] = config.max_pages_per_account

\* C10: run() never hangs: as long as it has not returned, some step of the
\* batch can still be taken.
C10_RunReturns == orch_pc # "returned" => ENABLED Next

\* C11: after any save_article calls, from any threads and with the same or
\* different batch_id, batch_articles holds at most one row per link, and that
\* row carries the title, digest, content and batch_id of the most recent
\* save of that link that was written; a link never saved has no row.
C11_OneRowPerLink ==
    \A l \in Links :
        /\ Cardinality(RowsOf(batch_articles, l)) <= 1
        /\ IF last_save[l] = NoSave
           THEN RowsOf(batch_articles, l) = {}
           ELSE \E r \in RowsOf(batch_articles, l) :
                    /\ r.title = last_save[l].title
                    /\ r.digest = last_save[l].digest
                    /\ r.content = last_save[l].content
                    /\ r.batch_id = last_save[l].batch_id

\* Two runs with different batch ids have each saved the same link once, the
\* second save replacing the row of the first.
C11_Witness ==
    /\ run_batch_id["run_1"] # run_batch_id["run_2"]
    /\ \A t \in Callers : run_saved[t] = 1 /\ tpc[t] = "scanning"
    /\ \E l \in Links : last_save[l] # NoSave /\ last_save[l].replaced

\* C12: created_at of an article row is set once, on the first insert of its
\* link: a step that leaves a row of a link in the table leaves its created_at
\* as it was.
C12_CreatedAtSetOnce ==
    [][\A r \in batch_articles : \A r2 \in batch_articles' :
           r2.link = r.link => r2.created_at = r.created_at]_vars

\* C13: an account whose listing-page fetches all failed ends with status
\* error, not completed.
C13_FetchFailureTerminal ==
    \A a \in Acc :
        (/\ ~is_cancelled
         /\ status[a] \in {"completed", "error"}
         /\ fetches[a] > 0
         /\ FailedFetches(a) = fetches[a]) => status[a] = "error"

\* C14: _make_request returns the first successful response: after k failed
\* attempts, k <= RETRY_COUNT, and a success it has made exactly k + 1
\* requests; when every attempt fails it has made exactly RETRY_COUNT + 1
\* requests and returns None; it sleeps the retry delay once between two
\* attempts and never after the last, and never makes more than
\* RETRY_COUNT + 1 requests.
C14_MakeRequestRetries ==
    /\ m_requests <= RETRY_COUNT + 1
    /\ m_pc = "sending" => m_requests = m_i + 1 /\ m_sleeps = m_i
    /\ m_pc = "done" /\ m_response = "response" =>
           /\ m_i <= RETRY_COUNT
           /\ m_requests = m_i + 1
           /\ m_sleeps = m_i
    /\ m_pc = "done" /\ m_response = "None" =>
           /\ m_requests = RETRY_COUNT + 1
           /\ m_sleeps = RETRY_COUNT
    /\ m_pc = "done" => m_response \in {"response", "None"}

\* Two attempts failed and the third succeeded: three requests were made.
C14_Witness ==
    /\ m_pc = "done"
    /\ m_response = "response"
    /\ m_i = 2
    /\ m_requests = 3

\* C15: when an auth-failure code is answered while the first account is
\* processed, no request is made for any later account, and when the run
\* leaves its loop every later account has been marked error.
C15_AuthFailureFatal ==
    s_auth = 1 =>
        \A a \in Acc : a > 1 =>
            /\ s_calls[a] = 0
            /\ s_pc \in {"finally", "exited"} =>
                   \E k \in 1..Len(s_events) : s_events[k] = <<a, "error">>

\* C16: once a status event completed or error has been emitted for an
\* account, no later status event of that account carries another status.
C16_TerminalStatusFinal ==
    \A j, k \in 1..Len(s_events) :
        (/\ j < k
         /\ s_events[j][1] = s_events[k][1]
         /\ s_events[j][2] \in {"completed", "error"}) => s_events[k][2] = s_events[j][2]

\* C17: in both modes, every completed or error status event of an account
\* is preceded by a processing status event of the same account: a step that
\* emits completed or error for an account finds its status at processing.
C17_ProcessingFirst ==
    [][\A a \in Acc :
           (status'[a] \in {"completed", "error"} /\ status'[a] # status[a])
               => status[a] = "processing"]_vars

\* C18: a batch_info record whose status has left running is terminal: no
\* step changes it, create_batch of a run with the same batch_id included.
C18_BatchRecordTerminal ==
    [][\A b \in BatchIds :
           batch_info[b].status \notin {"none", "running"}
               => batch_info'[b] = batch_info[b]]_vars

\* The number of articles the accounts of S that completed have found
\* (accounts in error count 0).
RECURSIVE CompletedArticles(_)
CompletedArticles(S) ==
    IF S = {} THEN 0
    ELSE LET a == CHOOSE x \in S : TRUE
         IN (IF status[a] = "completed" THEN Len(articles_in_range[a]) ELSE 0)
                + CompletedArticles(S \ {a})

\* C19: when an uncancelled batch has finished, batch_completed was emitted
\* once and carries the number of aggregated articles, which is the sum of the
\* article counts of the accounts that completed (accounts in error contribute
\* none); with a store, complete_batch was called exactly once and the record
\* is completed with that same total.
C19_TotalIsAggregate ==
    (orch_pc = "returned" /\ ~is_cancelled /\ ValidWindow) =>
        /\ Len(all_articles) = CompletedArticles(Accounts)
        /\ \A a \in Accounts : status[a] = "error" => ArticlesOf(all_articles, a) = <<>>
        /\ completed_events = <<Len(all_articles)>>
        /\ config.use_database =>
               /\ db_completions = 1
               /\ db_batch = "completed"
               /\ db_total = Len(all_articles)

\* A finished batch with a store in which one account completed with an
\* article and another ended in error.
C19_Witness ==
    /\ orch_pc = "returned" /\ ~is_cancelled /\ config.use_database
    /\ db_batch = "completed" /\ db_total = 1
    /\ \E a, b \in Accounts :
           /\ status[a] = "completed" /\ Len(articles_in_range[a]) = 1
           /\ status[b] = "error"

\* C20: a configuration whose start_date is later than its end_date, or one
\* of whose dates cannot be parsed, is rejected before any network activity:
\* no search or page-fetch call is ever made, no batch_info record is created,
\* no batch_completed event is emitted, and once run() has returned exactly
\* one error has been reported.
C20_BadWindowRejected ==
    ~ValidWindow =>
        /\ orch_pc \in {"init", "returned"}
        /\ \A a \in Acc : searches[a] = 0 /\ fetches[a] = 0
        /\ db_batch = "none" /\ db_completions = 0
        /\ completed_events = <<>>
        /\ orch_pc = "returned" => error_events = <<0>>

\* A run with a store whose start_date is later than its end_date has returned.
C20_Witness ==
    /\ orch_pc = "returned"
    /\ config.use_database
    /\ config.start_date \in Days /\ config.end_date \in Days
    /\ config.start_date > config.end_date

\* C21: with an empty account list run() fails fast with a configuration
\* error: no BatchRun record is created, no network call is made, no
\* batch_completed event is emitted, and the run ends with an error event.
C21_EmptyAccountsRejected ==
    config.accounts = 0 =>
        /\ db_batch = "none"
        /\ completed_events = <<>>
        /\ \A a \in Acc : searches[a] = 0 /\ fetches[a] = 0
        /\ orch_pc = "returned" => error_events # <<>>

\* The articles a scan of the served feed f yields, page by page of PageSize
\* items, the first item of the next page sitting at position base + 1.
RECURSIVE ScanOfFeed(_, _)
ScanOfFeed(f, base) ==
    IF f = <<>> THEN <<>>
    ELSE LET n == Min(PageSize, Len(f))
         IN FilterPage(SubSeq(f, 1, n), base).arts
                \o ScanOfFeed(SubSeq(f, n + 1, Len(f)), base + PageSize)

\* The outcome of account a as a function of what the network gave it, the
\* scheduling mode left out: its final status and its article list.
OutcomeStatus(a) == IF wpc[a] = "returned" THEN "completed" ELSE "error"
OutcomeArticles(a) ==
    IF wpc[a] = "returned" THEN Tagged(a, ScanOfFeed(feed[a], 0)) ELSE <<>>

RECURSIVE OutcomeTotal(_)
OutcomeTotal(S) ==
    IF S = {} THEN 0
    ELSE LET a == CHOOSE x \in S : TRUE
         IN Len(OutcomeArticles(a)) + OutcomeTotal(S \ {a})

\* C22: concurrency changes only scheduling: when an uncancelled batch has
\* finished, each account's article list in the aggregate, each account's final
\* status and the batch total are the same function of the accounts, the window
\* and what the feeds served, in sequential and in threaded mode alike; only
\* the order across accounts is left open.  (Runs in which no call of the
\* store let an exception escape.)
C22_ModeIndependentOutcome ==
    (orch_pc = "returned" /\ ~is_cancelled /\ ValidWindow /\ save_raises = 0) =>
        /\ \A a \in Accounts :
              /\ status[a] = OutcomeStatus(a)
              /\ ArticlesOf(all_articles, a) = OutcomeArticles(a)
        /\ Len(all_articles) = OutcomeTotal(Accounts)
        /\ completed_events = <<OutcomeTotal(Accounts)>>

\* A threaded batch finished with the accounts yielded out of list order: the
\* aggregate starts with the articles of a later account, an earlier one's follow.
C22_Witness ==
    /\ orch_pc = "returned" /\ ~is_cancelled /\ ValidWindow
    /\ config.use_threading /\ config.accounts > 1
    /\ \E a, b \in Accounts :
          /\ a < b
          /\ status[a] = "completed" /\ status[b] = "completed"
          /\ all_articles # <<>> /\ all_articles[1][1] = b
          /\ ArticlesOf(all_articles, a) # <<>>

\* The accounts a pool worker is scraping.
BeingScraped == {a \in Accounts : Running(a)}

\* C23: in threaded mode at most min(max_workers, number of accounts) accounts
\* are being scraped at any instant, no account is started twice, and when an
\* uncancelled batch has finished every account of the list was scraped once.
C23_BoundedPoolEachAccountOnce ==
    (config.use_threading /\ config.accounts > 1) =>
        /\ Cardinality(BeingScraped) <= Min(config.max_workers, config.accounts)
        /\ \A a \in Accounts : searches[a] <= 1
        /\ (orch_pc = "returned" /\ ~is_cancelled /\ ValidWindow) =>
               \A a \in Accounts : searches[a] = 1 /\ Finished(a)

\* The pool is saturated: as many accounts are being scraped as it has
\* workers, and a further account waits in its queue.
C23_Witness ==
    /\ config.use_threading /\ config.accounts > 1
    /\ Cardinality(BeingScraped) = Min(config.max_workers, config.accounts)
    /\ \E a \in Accounts : wpc[a] = "queued"
    /\ \E a \in Accounts : wpc[a] = "fetching"

\* C24: the export file is written at most once per batch, by the orchestrator
\* in its finalisation only, and only while no account worker is running or
\* still waiting in the pool's queue.
C24_ExportOnceAfterJoin ==
    [][(export_writes' # export_writes \/ export' # export) =>
           /\ export_writes = 0 /\ export_writes' = 1
           /\ orch_pc = "finalize" /\ orch_pc' = "returned"
           /\ \A a \in Accounts : ~Running(a) /\ wpc[a] # "queued"]_vars

\* A threaded batch whose accounts all ran in the pool has written its file.
C24_Witness ==
    /\ config.use_threading /\ config.accounts > 1
    /\ export_writes = 1
    /\ export # <<>>
    /\ \A a \in Accounts : searches[a] = 1

\* The articles of account a's result that are not in the store.
Unsaved(a) == Range(Tagged(a, articles_in_range[a])) \ db_articles

\* C26: a storage write that fails for one article does not abort or alter the
\* account's scan: with a store, the result of an account that returned is the
\* scan of the feed it was served, as if every write had succeeded, every
\* article of the result that is missing in the store is one whose write was
\* reported as failed, and the account does not end in error.
C26_WriteFailureHarmless ==
    \A a \in Accounts :
        (config.use_database /\ wpc[a] \in {"returned", "raised"} /\ searches[a] = 1
         /\ page[a] > 0) =>
            /\ wpc[a] = "returned"
            /\ articles_in_range[a] = ScanOfFeed(feed[a], 0)
            /\ Cardinality(Unsaved(a)) <= save_errors + save_raises

\* C30: when an uncancelled batch aggregated at least one article and an output
\* file is configured, the export file holds one row per aggregated article,
\* with the content column or without it.
C30_ExportHoldsAggregate ==
    (orch_pc = "returned" /\ ~is_cancelled /\ all_articles # <<>> /\ config.output_file)
        => export_writes = 1 /\ export = all_articles

\* The threads inside an operation of the BatchScraperDatabase of run t.
Inside(t) == {th \in Threads : Owner(th) = t /\ tpc[th] \in InsideOps}

\* C25: writes to the store of one run are serialized: at most one thread is
\* inside create_batch, save_article or complete_batch, that thread holds the
\* lock, nobody else does, and it can always take the step that ends its
\* operation and releases the lock, by writing or by raising: a thread that is
\* not inside an operation never keeps the lock.
C25_StoreSerialized ==
    \A t \in Callers :
        /\ Cardinality(Inside(t)) <= 1
        /\ \A th \in Inside(t) : lock[t] = th
        /\ lock[t] # "free" =>
              /\ lock[t] \in Inside(t)
              /\ ENABLED (\/ SaveArticleWrite(lock[t]) \/ SaveArticleFails(lock[t])
                          \/ CreateBatchWrite(lock[t]) \/ CompleteBatchWrite(lock[t])
                          \/ BatchWriteRaises(lock[t]))

\* A save_article call of the pool has raised and released the lock: nothing
\* is stored after the first call of run_1, and a worker is inside the second
\* call while the other worker is between calls.
C25_Witness ==
    /\ tpc["run_2"] = "init"
    /\ run_saved["run_1"] = 2
    /\ batch_articles = {}
    /\ \E w1, w2 \in Workers :
          /\ w1 # w2
          /\ lock["run_1"] = w1
          /\ tpc[w1] = "save_article"
          /\ tpc[w2] = "idle"

\* C29: when an error aborts the run after its BatchRun record was created (the
\* store failing while the batch is finalized), the record is marked failed and
\* does not stay in status running.
C29_AbortedBatchMarkedFailed ==
    \A t \in Callers :
        (/\ tpc[t] = "failed"
         /\ \A u \in Callers : u # t => run_batch_id[u] # run_batch_id[t]
         /\ batch_info[run_batch_id[t]] # NoRow)
            => batch_info[run_batch_id[t]].status = "failed"

\* The articles a step has appended to articles_in_range of the scraper.
Appended == SubSeq(s_articles', Len(s_articles) + 1, Len(s_articles'))

\* C27: enrichment failure never fails the article or the account: a page on
\* which extract_content failed (and no save_article call raised) adds every
\* article whose extraction failed to the account's result with content '',
\* persists it with content '' when its write was made, and does not mark the
\* account error.
C27_EnrichmentFailureTolerated ==
    [][(/\ s_pc = "list"
        /\ s_warnings' > s_warnings
        /\ \A i \in 1..Len(Appended) : Appended[i].save # "raised") =>
           /\ Cardinality({i \in 1..Len(Appended) : Appended[i].enrich \in ExtractFailures})
                  = s_warnings' - s_warnings
           /\ \A i \in 1..Len(Appended) :
                 Appended[i].enrich \in ExtractFailures =>
                     /\ Appended[i].content = ""
                     /\ Appended[i].save = "written" =>
                            [link |-> Appended[i].link, content |-> ""] \in s_db'
           /\ s_events' \in {s_events, Emit(s_events, s_i, "completed")}]_vars

\* The account has completed with an article whose extraction failed: the
\* article is in the result and in the store, with empty content.
C27_Witness ==
    /\ s_events # <<>> /\ s_events[Len(s_events)] = <<NumAccounts, "completed">>
    /\ \E i \in 1..Len(s_articles) :
          /\ s_articles[i].enrich = "request_error"
          /\ s_articles[i].content = ""
          /\ [link |-> s_articles[i].link, content |-> ""] \in s_db
    /\ \A k \in 1..Len(s_events) : s_events[k] # <<NumAccounts, "error">>

\* C28: run_getContentsByUrls_MultiThread outputs exactly one content entry
\* per input url, in the order of the url file, whatever the interleaving of
\* its crawl and parse threads: when its first call in a process returns after
\* every request was answered, no response is left on response_queue and the
\* content file holds the parsed text of each url.
C28_OneEntryPerUrl ==
    (/\ main_pc = "returned" /\ invocation = 1
     /\ Len(response_queue) + Len(contents) = Len(url_list)) =>
        /\ response_queue = <<>>
        /\ content_file = [i \in 1..Len(url_list) |-> ParsedText(url_list[i])]

\* C31: a search or listing response with an unparsable body is treated like a
\* transport failure: the account is given up over it only after the request
\* was sent RETRY_COUNT + 1 times, with the retry delay slept between the
\* attempts.
C31_MalformedBodyRetried ==
    [][(/\ s_pc \in {"search", "list"}
        /\ \E k \in (Len(s_events) + 1)..Len(s_events') : s_events'[k][2] = "error"
        /\ s_error' = "JSON parse failed") =>
           m_requests = RETRY_COUNT + 1 /\ m_sleeps = RETRY_COUNT]_vars

\* C32: in _scrape_single_account the cursor advances by exactly the page
\* size after each fully processed page (the iterations that reach the pause)
\* and by nothing otherwise, and the pause is drawn from the request interval
\* of the batch configuration: with another configured interval the pause
\* would be drawn from another range.
C32_PauseFromConfiguredInterval ==
    [][\A a \in Acc :
          /\ page_start'[a] # page_start[a] => Len(pauses'[a]) = Len(pauses[a]) + 1
          /\ Len(pauses'[a]) # Len(pauses[a]) =>
                /\ Len(pauses'[a]) = Len(pauses[a]) + 1
                /\ page_start'[a] = page_start[a] + PageSize
                /\ \A i \in {DefaultInterval, PresetInterval} \ {config.request_interval} :
                       pauses'[a][Len(pauses'[a])]
                           # PauseRange([config EXCEPT !.request_interval = i])]_vars

\* The feed positions of poss never step back: a later entry is no earlier in
\* the feed than the entries before it.
InFeedOrder(poss) == \A i, j \in 1..Len(poss) : i < j => poss[i] <= poss[j]

\* C33: the articles of one account are emitted in feed order: in the list
\* _scrape_single_account builds and returns, and among the account's entries
\* of the batch aggregate, an article never comes after one that follows it in
\* the feed, in sequential and in threaded mode.
C33_FeedOrderKept ==
    \A a \in Accounts :
        /\ InFeedOrder(articles_in_range[a])
        /\ InFeedOrder([i \in 1..Len(ArticlesOf(all_articles, a)) |->
                            ArticlesOf(all_articles, a)[i][2]])

\* No entry of the list s occurs twice.
NoDuplicates(s) == \A i, j \in 1..Len(s) : s[i] = s[j] => i = j

\* C37: the feed of an account is static and its items have distinct links, so
\* the list _scrape_single_account builds holds each link at most once, and so
\* does the batch aggregate, whose length, the batch total, is the number of
\* distinct links collected; page fetches and store writes that raise during
\* the scan change nothing in that.
C37_EachLinkOnce ==
    /\ \A a \in Accounts : NoDuplicates(articles_in_range[a])
    /\ NoDuplicates(all_articles)
    /\ \A k \in 1..Len(completed_events) :
           completed_events[k] = Cardinality(Range(all_articles))

\* C34: batch_completed is emitted at most once per run, only by the
\* finalization, only when every account worker has finished and the
\* cancellation flag is not set; the step that emits it also makes the export
\* (when there is something to write) and, with a store, the completion of the
\* BatchRun record; a finalization that finds the flag set emits nothing and
\* writes nothing.
C34_CompletedOnceAtTheEnd ==
    [][/\ completed_events' # completed_events =>
             /\ completed_events = <<>> /\ Len(completed_events') = 1
             /\ orch_pc = "finalize" /\ orch_pc' = "returned"
             /\ ~is_cancelled
             /\ \A a \in Accounts : Finished(a)
             /\ config.use_database =>
                    db_completions' = db_completions + 1 /\ db_batch' = "completed"
             /\ SaveResultsWrites(all_articles) => export_writes' = export_writes + 1
       /\ (orch_pc = "finalize" /\ is_cancelled /\ orch_pc' = "returned") =>
             /\ completed_events' = <<>>
             /\ UNCHANGED <<export, export_writes, db_batch, db_completions>>]_vars

\* A threaded batch with a store has finished with articles: the event was
\* emitted, the file written and the record completed.
C34_Witness ==
    /\ orch_pc = "returned" /\ ~is_cancelled
    /\ config.use_threading /\ config.accounts > 1 /\ config.use_database
    /\ completed_events = <<Len(all_articles)>> /\ all_articles # <<>>
    /\ export_writes = 1 /\ db_batch = "completed" /\ db_completions = 1

\* C35: in an uncancelled run, when batch_completed has been emitted a
\* progress event whose completed_accounts equals the number of accounts has
\* been emitted before, in sequential and in threaded mode, also when the
\* account that finished last ended in error.
C35_ProgressReachesTotal ==
    (~is_cancelled /\ completed_events # <<>> /\ config.accounts > 0) =>
        \E k \in 1..Len(progress_events) : progress_events[k] = config.accounts

\* The threads of the manager that are running.
RunningThreads == {i \in ThreadIds : IsRunning(i)}

\* C36: a BatchScraperManager runs at most one batch thread at a time: a step
\* that starts a thread finds every earlier thread terminated, a thread that
\* was running when start_batch_scrape was called having been cancelled first;
\* and a cancel_batch_scrape call that finds no running thread changes nothing
\* of the manager and of its threads.
C36_OneThreadAtATime ==
    [][/\ Cardinality({i \in ThreadIds : th_state'[i] \in {"running", "hung"}}) <= 1
       /\ \A i \in ThreadIds :
             (th_state[i] = "none" /\ th_state'[i] = "running") =>
                 /\ RunningThreads = {}
                 /\ \A j \in 1..(i - 1) : th_state[j] = "finished"
                 /\ mgr_pc = "start_wait" => th_cancelled[current_thread]
       /\ (mgr_cancels' # mgr_cancels /\ ~CurrentIsRunning) =>
             UNCHANGED <<current_thread, th_state, th_cancelled, mgr_pc>>]_vars

\* The manager has started its third thread after start_batch_scrape cancelled
\* a running one and waited for it; a cancel_batch_scrape call found no
\* running thread before.
C36_Witness ==
    /\ current_thread = MaxThreads /\ th_state[MaxThreads] = "running"
    /\ \E i \in 1..(MaxThreads - 1) : th_cancelled[i] /\ th_state[i] = "finished"
    /\ \E i \in 1..(MaxThreads - 1) : ~th_cancelled[i] /\ th_state[i] = "finished"
    /\ mgr_cancels > 0

\* The urls of this call that are somewhere between the url file and the
\* list contents: queued, being requested, answered, being parsed.
InFlight ==
    Len(url_queue) + Cardinality({t \in CrawThreads : craw_url[t] # NoItem})
        + Len(response_queue) + Cardinality({t \in ParseThreads : parse_response[t] # NoItem})

\* C38: run_getContentsByUrls_MultiThread terminates when every request
\* returns: in its first call, as long as it has not returned, no request has
\* raised or stalled and every url is still accounted for, some thread can
\* take a step; no thread is left blocked in get() on a queue that another
\* thread emptied after its empty() test.
C38_DownloaderTerminates ==
    (/\ main_pc = "join" /\ invocation = 1
     /\ \A t \in CrawThreads : craw_pc[t] # "hung"
     /\ InFlight + Len(contents) = Len(url_list)) => ENABLED MultiNext

\* C39: successive calls of run_getContentsByUrls_MultiThread in one process
\* are independent: the content file of a call holds only texts of the urls of
\* that call, at most one row per url of its file.
C39_InvocationsIndependent ==
    (main_pc = "returned" /\ content_file # NoFile) =>
        /\ Len(content_file) <= Len(url_list)
        /\ \A k \in 1..Len(content_file) :
               \E i \in 1..Len(url_list) : content_file[k] = ParsedText(url_list[i])

====
